---- MODULE Spec2Model ----
(***************************************************************************)
(* A model of the Oneka engine (AEMPhil/Oneka): the dense Matrix kernel    *)
(* (matrix.cpp, concatenated into src/Engine/gaussian.cpp), the Gaussian   *)
(* generators (gaussian.cpp) and the Engine entry (oneka_engine.cpp,       *)
(* src/unnamed/part_000).                                                  *)
(*                                                                         *)
(* A Matrix object is a record [nRows, nCols, Data]; Data is the buffer    *)
(* m_Data as a sequence (the NULL pointer is the empty sequence), element  *)
(* (i,j) of the code is Data[i*nCols + j + 1].  Matrix objects live in a   *)
(* heap (a function from object names to records), so that a routine       *)
(* called with the same object as input and output reads what it wrote.    *)
(* A failed assert() ends the program: the routine's outcome is "assert".  *)
(***************************************************************************)
EXTENDS Integers, Sequences, FiniteSets, TLC

VARIABLES
    mats,      \* the heap of Matrix objects of the matrix scenario
    status,    \* "running", or "aborted" after a failed assert()
    last,      \* the last Matrix operation called, with its operands
    lit,       \* the literal handed to Matrix(const std::string&)
    parsed,    \* "pending", or the outcome of the textual constructor on lit
    rng,       \* the process-wide generator state: rand()'s state, Saved, S
    seeded,    \* the last seed given to InitializeRNG(int), -1 before any
    draws,     \* the values GaussianRNG() returned since the last seeding
    eng,       \* the Engine call: its input bundle, position and outcome
    result     \* the last value returned by a routine which returns a double

vars == <<mats, status, last, lit, parsed, rng, seeded, draws, eng, result>>

-----------------------------------------------------------------------------
(* Bounds of the model. *)

MaxDim == 2        \* largest row or column count of the matrix scenario
MaxVal == 1        \* largest absolute element value of the matrix scenario
MaxCells == 2      \* largest element count of a matrix of the matrix scenario
MaxLitLen == 5     \* longest enumerated literal of the parsing scenario
MaxOperandVal == 1 \* largest element of an operand of the product scenario
MaxFill == 2       \* largest absolute scalar of the norm scenario
MaxFactor == 2     \* largest diagonal of a triangular factor of the solver scenario

Dims == 0..MaxDim
Vals == (0 - MaxVal)..MaxVal
Obj == {"X", "Y"}

-----------------------------------------------------------------------------
(* Sequences and buffers. *)

Min(a, b) == IF a < b THEN a ELSE b

\* new double[n]: n cells holding no value yet (every path of the code
\* overwrites them all before reading any)
New(n) == [k \in 1..n |-> "indeterminate"]

\* memset( buf, 0, sizeof(double)*n )
memset0(buf, n) == [k \in 1..Len(buf) |-> IF k <= n THEN 0 ELSE buf[k]]

\* memcpy( dst, src, sizeof(double)*n )
memcpy(dst, src, n) == [k \in 1..Len(dst) |-> IF k <= n THEN src[k] ELSE dst[k]]

-----------------------------------------------------------------------------
(* Matrix life cycle. *)

Matrix_Null == [nRows |-> 0, nCols |-> 0, Data |-> << >>]

Matrix_Copy(A) ==
    IF A.nRows > 0 /\ A.nCols > 0
    THEN [nRows |-> A.nRows, nCols |-> A.nCols,
          Data |-> memcpy(New(A.nRows * A.nCols), A.Data, A.nRows * A.nCols)]
    ELSE Matrix_Null

Matrix_Dim(nrows, ncols) ==
    [nRows |-> nrows, nCols |-> ncols,
     Data |-> memset0(New(nrows * ncols), nrows * ncols)]

Matrix_Fill(nrows, ncols, a) ==
    [nRows |-> nrows, nCols |-> ncols,
     Data |-> [k \in 1..(nrows * ncols) |->
                 IF \E i \in 0..(nrows - 1), j \in 0..(ncols - 1) : k = i * ncols + j + 1
                 THEN a ELSE "indeterminate"]]

Matrix_Array(nrows, ncols, data) ==
    [nRows |-> nrows, nCols |-> ncols,
     Data |-> memcpy(New(nrows * ncols), data, nrows * ncols)]

ResizeSkipsZeroFill(M, nrows, ncols) ==
    IF M.nRows # nrows \/ M.nCols # ncols
    THEN IF nrows > 0 /\ ncols > 0
         THEN [nRows |-> nrows, nCols |-> ncols,
               Data |-> memset0(New(nrows * ncols), nrows * ncols)]
         ELSE Matrix_Null
    ELSE M

Resize(M, nrows, ncols) ==
    LET R == IF M.nRows # nrows \/ M.nCols # ncols
             THEN IF nrows > 0 /\ ncols > 0
                  THEN [nRows |-> nrows, nCols |-> ncols, Data |-> New(nrows * ncols)]
                  ELSE Matrix_Null
             ELSE M
    IN [R EXCEPT !.Data = memset0(R.Data, R.nRows * R.nCols)]

\* operator=( const Matrix& A ) on the object named dst; src is the name of A
Assign(h, dst, src) ==
    IF dst = src THEN h
    ELSE LET R == Resize(h[dst], h[src].nRows, h[src].nCols)
         IN [h EXCEPT ![dst] =
                IF R.nRows * R.nCols > 0
                THEN [R EXCEPT !.Data = memcpy(R.Data, h[src].Data, R.nRows * R.nCols)]
                ELSE R]

\* operator=( const Matrix& A ) where A is a local of the calling routine,
\* which is never the object assigned to
AssignLocal(h, dst, A) ==
    LET R == Resize(h[dst], A.nRows, A.nCols)
    IN [h EXCEPT ![dst] =
           IF R.nRows * R.nCols > 0
           THEN [R EXCEPT !.Data = memcpy(R.Data, A.Data, R.nRows * R.nCols)]
           ELSE R]

\* operator=( double a )
AssignScalar(M, a) == [M EXCEPT !.Data = [k \in 1..Len(M.Data) |->
                                              IF k <= M.nRows * M.nCols THEN a ELSE M.Data[k]]]

-----------------------------------------------------------------------------
(* The textual constructor Matrix( const std::string& ).  A string is a    *)
(* sequence of one-character strings; positions are the code's, from 0.    *)

npos == 2147483647

IsWs(ch) == ch \in {" ", "\t"}
LegalChars == {"-", "0", "1", "2", "3", "4", "5", "6", "7", "8", "9",
               "e", "E", ".", ",", ";", " ", "\t"}
Digits == {"0", "1", "2", "3", "4", "5", "6", "7", "8", "9"}
DigitValue(ch) ==
    CASE ch = "0" -> 0 [] ch = "1" -> 1 [] ch = "2" -> 2 [] ch = "3" -> 3
      [] ch = "4" -> 4 [] ch = "5" -> 5 [] ch = "6" -> 6 [] ch = "7" -> 7
      [] ch = "8" -> 8 [] ch = "9" -> 9

\* s.find_first_not_of(" \t", pos)
find_first_not_of(s, pos) ==
    LET hits == {i \in 0..(Len(s) - 1) : i >= pos /\ ~IsWs(s[i + 1])}
    IN IF hits = {} THEN npos ELSE CHOOSE i \in hits : \A j \in hits : i <= j

\* s.find_first_of(ch, pos)
find_first_of(s, ch, pos) ==
    LET hits == {i \in 0..(Len(s) - 1) : i >= pos /\ s[i + 1] = ch}
    IN IF hits = {} THEN npos ELSE CHOOSE i \in hits : \A j \in hits : i <= j

\* s.substr(pos, count), for pos <= s.size() (beyond it std::out_of_range is thrown)
substr(s, pos, count) == SubSeq(s, pos + 1, Min(Len(s), pos + Min(count, Len(s))))

\* The digits at the head of s, as a number continuing acc.
RECURSIVE ReadDigits(_, _)
ReadDigits(s, acc) ==
    IF s = << >> \/ Head(s) \notin Digits THEN acc
    ELSE ReadDigits(Tail(s), 10 * acc + DigitValue(Head(s)))

RECURSIVE SkipWs(_)
SkipWs(s) == IF s # << >> /\ IsWs(Head(s)) THEN SkipWs(Tail(s)) ELSE s

\* std::istringstream iss( token ); double value = 0.0;
\* if ((iss >> value).fail()) value = 0.0;
\* operator>> skips leading blanks, then reads a sign and digits; with no
\* digit the extraction fails.  (The literals of the model hold no '.',
\* 'e' or 'E'.)
TokenValue(token) ==
    LET t == SkipWs(token)
        neg == t # << >> /\ Head(t) = "-"
        d == IF neg THEN Tail(t) ELSE t
    IN IF d = << >> \/ Head(d) \notin Digits THEN 0
       ELSE IF neg THEN 0 - ReadDigits(d, 0) ELSE ReadDigits(d, 0)

\* The inner while loop (lines 392-404): the tokens of one line.  The next
\* token's start is searched in str, not in line (line 403).
RECURSIVE ParseTokens(_, _, _, _)
ParseTokens(str, line, beg_token, row) ==
    IF beg_token = npos THEN [thrown |-> FALSE, row |-> row]
    ELSE IF beg_token > Len(line) THEN [thrown |-> TRUE, row |-> row]
    ELSE LET end_token == find_first_of(line, ",", beg_token)
             token == substr(line, beg_token, end_token - beg_token)
             row2 == Append(row, TokenValue(token))
         IN IF end_token = npos THEN [thrown |-> FALSE, row |-> row2]
            ELSE ParseTokens(str, line, find_first_not_of(str, end_token + 1), row2)

\* The outer while loop (lines 384-409): the vector of rows.
RECURSIVE ParseLines(_, _, _)
ParseLines(str, beg_line, rows) ==
    IF beg_line = npos THEN [thrown |-> FALSE, rows |-> rows]
    ELSE LET end_line == find_first_of(str, ";", beg_line)
             line == substr(str, beg_line, end_line - beg_line)
             r == ParseTokens(str, line, find_first_not_of(line, 0), << >>)
         IN IF r.thrown THEN [thrown |-> TRUE, rows |-> rows]
            ELSE IF end_line = npos THEN [thrown |-> FALSE, rows |-> Append(rows, r.row)]
            ELSE ParseLines(str, find_first_not_of(str, end_line + 1), Append(rows, r.row))

RECURSIVE MaxRowSize(_, _)
MaxRowSize(rows, n) ==
    IF rows = << >> THEN n
    ELSE MaxRowSize(Tail(rows), IF Len(Head(rows)) > n THEN Len(Head(rows)) ELSE n)

\* Lines 411-428: the Matrix of the parsed rows.
MatrixOfRows(rows) ==
    LET m == Len(rows)
        n == MaxRowSize(rows, 0)
        zero == memset0(New(m * n), m * n)
    IN [nRows |-> m, nCols |-> n,
        Data |-> [k \in 1..(m * n) |->
                    LET i == (k - 1) \div n
                        j == (k - 1) % n
                    IN IF j < Len(rows[i + 1]) THEN rows[i + 1][j + 1] ELSE zero[k]]]

\* Matrix( const std::string& str ): outcome "ok" with the Matrix built,
\* "assert" (an illegal character) or "out_of_range" (substr threw).
Matrix_String(str) ==
    IF \E k \in 1..Len(str) : str[k] \notin LegalChars
    THEN [outcome |-> "assert", M |-> Matrix_Null]
    ELSE LET p == ParseLines(str, find_first_not_of(str, 0), << >>)
         IN IF p.thrown THEN [outcome |-> "out_of_range", M |-> Matrix_Null]
            ELSE [outcome |-> "ok", M |-> MatrixOfRows(p.rows)]

-----------------------------------------------------------------------------
(* The dot-product primitive (sum_product-inl.h).  A pointer is a buffer   *)
(* with an offset: x[k] of the code is xb[xo + k + 1].                     *)

\* SumProduct( n, x, y )
RECURSIVE SumProduct_xy(_, _, _, _, _, _, _)
SumProduct_xy(n, xb, xo, yb, yo, i, Sum) ==
    IF i < n
    THEN SumProduct_xy(n, xb, xo + 1, yb, yo + 1, i + 1, Sum + xb[xo + 1] * yb[yo + 1])
    ELSE Sum

\* A strided sum which steps through y one element at a time whatever dy.
RECURSIVE SumProduct_xdxydy_UnitStrideY(_, _, _, _, _, _, _, _, _)
SumProduct_xdxydy_UnitStrideY(n, xb, xo, dx, yb, yo, dy, i, Sum) ==
    IF i < n
    THEN SumProduct_xdxydy_UnitStrideY(n, xb, xo + dx, dx, yb, yo + 1, dy, i + 1,
                                       Sum + xb[xo + 1] * yb[yo + 1])
    ELSE Sum

\* SumProduct( n, x, dx, y, dy )
RECURSIVE SumProduct_xdxydy(_, _, _, _, _, _, _, _, _)
SumProduct_xdxydy(n, xb, xo, dx, yb, yo, dy, i, Sum) ==
    IF i < n
    THEN SumProduct_xdxydy(n, xb, xo + dx, dx, yb, yo + dy, dy, i + 1,
                           Sum + xb[xo + 1] * yb[yo + 1])
    ELSE Sum

\* SumProduct( n, x, y, dy )
RECURSIVE SumProduct_xydy(_, _, _, _, _, _, _, _)
SumProduct_xydy(n, xb, xo, yb, yo, dy, i, Sum) ==
    IF i < n
    THEN SumProduct_xydy(n, xb, xo + 1, yb, yo + dy, dy, i + 1,
                         Sum + xb[xo + 1] * yb[yo + 1])
    ELSE Sum

\* SumProduct( n, x, dx, y )
RECURSIVE SumProduct_xdxy(_, _, _, _, _, _, _, _)
SumProduct_xdxy(n, xb, xo, dx, yb, yo, i, Sum) ==
    IF i < n
    THEN SumProduct_xdxy(n, xb, xo + dx, dx, yb, yo + 1, i + 1,
                         Sum + xb[xo + 1] * yb[yo + 1])
    ELSE Sum

\* SumProduct( n, x )
RECURSIVE SumProduct_x(_, _, _, _, _)
SumProduct_x(n, xb, xo, i, Sum) ==
    IF i < n
    THEN SumProduct_x(n, xb, xo + 1, i + 1, Sum + xb[xo + 1] * xb[xo + 1])
    ELSE Sum

\* SumProduct( n, x, dx )
RECURSIVE SumProduct_xdx(_, _, _, _, _, _)
SumProduct_xdx(n, xb, xo, dx, i, Sum) ==
    IF i < n
    THEN SumProduct_xdx(n, xb, xo + dx, dx, i + 1, Sum + xb[xo + 1] * xb[xo + 1])
    ELSE Sum

-----------------------------------------------------------------------------
(* Arithmetic routines.  Each takes the heap and the names of its operand  *)
(* objects and gives [ok, h]: ok is FALSE when an assert() failed (h is    *)
(* then the heap as it was), else h is the heap on return.                 *)

Aborted(h) == [ok |-> FALSE, h |-> h]
Returned(h) == [ok |-> TRUE, h |-> h]

NonEmpty(M) == M.nRows > 0 /\ M.nCols > 0

\* Matrix::Base( row, col ): the offset of element (row, col); its asserts
\* hold for every call the product routines make.
Base(M, row, col) == row * M.nCols + col

\* A( row, col ), the element access operator
Elem(M, i, j) == M.Data[i * M.nCols + j + 1]

TransposeAsCopy(h, a, c) ==
    IF ~NonEmpty(h[a]) THEN Aborted(h) ELSE Returned(Assign(h, c, a))

\* Transpose( A, C )
Transpose(h, a, c) ==
    IF ~NonEmpty(h[a]) THEN Aborted(h)
    ELSE LET A == h[a]
             Z == Matrix_Dim(A.nCols, A.nRows)
             At == [Z EXCEPT !.Data = [k \in 1..Len(Z.Data) |->
                       LET j == (k - 1) \div A.nRows
                           i == (k - 1) % A.nRows
                       IN A.Data[i * A.nCols + j + 1]]]
         IN Returned(AssignLocal(h, c, At))

\* Negative( A, C )
Negative(h, a, c) ==
    IF ~NonEmpty(h[a]) THEN Aborted(h)
    ELSE LET h1 == Assign(h, c, a)
         IN Returned([h1 EXCEPT ![c].Data =
                [k \in 1..Len(h1[c].Data) |->
                    IF k <= h1[c].nRows * h1[c].nCols THEN 0 - h1[c].Data[k]
                    ELSE h1[c].Data[k]]])

\* The loop of Add_aM, (*p++) = a+(*p): the read of p and its increment are
\* unsequenced.  A build that reads before incrementing stores a + C[k] in
\* C[k]; one that increments first stores a + C[k+1], and past the last
\* element it reads beyond the buffer (g stands for what lies there).
RECURSIVE Loop_aM(_, _, _, _, _, _)
Loop_aM(data, n, k, opnd, order, g) ==
    IF k > n THEN data
    ELSE LET src == IF order = "read_first" THEN data[k]
                    ELSE IF k < Len(data) THEN data[k + 1] ELSE g
             val == IF opnd.add THEN opnd.a + src ELSE opnd.a * src
         IN Loop_aM([data EXCEPT ![k] = val], n, k + 1, opnd, order, g)

\* Add_aM( a, A, C )
Add_aM(h, s, a, c, order, g) ==
    IF ~NonEmpty(h[a]) THEN Aborted(h)
    ELSE LET h1 == Assign(h, c, a)
         IN Returned([h1 EXCEPT ![c].Data =
                Loop_aM(h1[c].Data, h1[c].nRows * h1[c].nCols, 1,
                        [add |-> TRUE, a |-> s], order, g)])

\* Multiply_aM( a, A, C )
Multiply_aM(h, s, a, c, order, g) ==
    IF ~NonEmpty(h[a]) THEN Aborted(h)
    ELSE LET h1 == Assign(h, c, a)
         IN Returned([h1 EXCEPT ![c].Data =
                Loop_aM(h1[c].Data, h1[c].nRows * h1[c].nCols, 1,
                        [add |-> FALSE, a |-> s], order, g)])

\* The loop of Add_MM and Subtract_MM, (*r++) = (*p++) + (*q++): p, q and r
\* walk the buffers of A, B and C as they are after C.Resize.
RECURSIVE Loop_MM(_, _, _, _, _, _, _)
Loop_MM(h, a, b, c, k, n, sign) ==
    IF k > n THEN h
    ELSE Loop_MM([h EXCEPT ![c].Data[k] = h[a].Data[k] + sign * h[b].Data[k]],
                 a, b, c, k + 1, n, sign)

Asserts_MM_EqualShapesOnly(A, B) == A.nRows = B.nRows /\ A.nCols = B.nCols

\* The three assert() lines shared by Add_MM and Subtract_MM.
Asserts_MM(A, B) ==
    /\ A.nRows > 0 /\ A.nCols > 0
    /\ B.nRows > 0 /\ B.nCols > 0
    /\ A.nRows = B.nRows /\ A.nCols = B.nCols

\* Add_MM( A, B, C )
Add_MM(h, a, b, c) ==
    IF ~Asserts_MM(h[a], h[b]) THEN Aborted(h)
    ELSE LET h1 == [h EXCEPT ![c] = Resize(h[c], h[a].nRows, h[a].nCols)]
         IN Returned(Loop_MM(h1, a, b, c, 1, h1[a].nRows * h1[a].nCols, 1))

\* Subtract_MM( A, B, C )
Subtract_MM(h, a, b, c) ==
    IF ~Asserts_MM(h[a], h[b]) THEN Aborted(h)
    ELSE LET h1 == [h EXCEPT ![c] = Resize(h[c], h[a].nRows, h[a].nCols)]
         IN Returned(Loop_MM(h1, a, b, c, 1, h1[a].nRows * h1[a].nCols, 0 - 1))

\* A local result matrix of the product routines, element (i,j) given by f.
Product(nrows, ncols, f(_, _)) ==
    LET Z == Matrix_Dim(nrows, ncols)
    IN [Z EXCEPT !.Data = [k \in 1..Len(Z.Data) |->
                              f((k - 1) \div ncols, (k - 1) % ncols)]]

\* Multiply_MM( A, B, C )
Multiply_MM(h, a, b, c) ==
    LET A == h[a]
        B == h[b]
        AB(i, j) == SumProduct_xydy(A.nCols, A.Data, Base(A, i, 0),
                                    B.Data, Base(B, 0, j), B.nCols, 0, 0)
    IN IF ~(NonEmpty(A) /\ NonEmpty(B) /\ A.nCols = B.nRows) THEN Aborted(h)
       ELSE Returned(AssignLocal(h, c, Product(A.nRows, B.nCols, AB)))

Multiply_MtM_AsMM(h, a, b, c) == Multiply_MM(h, a, b, c)

\* Multiply_MtM( A, B, C )
Multiply_MtM(h, a, b, c) ==
    LET A == h[a]
        B == h[b]
        AtB(i, j) == SumProduct_xdxydy(A.nRows, A.Data, Base(A, 0, i), A.nCols,
                                       B.Data, Base(B, 0, j), B.nCols, 0, 0)
    IN IF ~(NonEmpty(A) /\ NonEmpty(B) /\ A.nRows = B.nRows) THEN Aborted(h)
       ELSE Returned(AssignLocal(h, c, Product(A.nCols, B.nCols, AtB)))

Multiply_MMt_AsMM(h, a, b, c) == Multiply_MM(h, a, b, c)

\* Multiply_MMt( A, B, C )
Multiply_MMt(h, a, b, c) ==
    LET A == h[a]
        B == h[b]
        ABt(i, j) == SumProduct_xy(A.nCols, A.Data, Base(A, i, 0),
                                   B.Data, Base(B, j, 0), 0, 0)
    IN IF ~(NonEmpty(A) /\ NonEmpty(B) /\ A.nCols = B.nCols) THEN Aborted(h)
       ELSE Returned(AssignLocal(h, c, Product(A.nRows, B.nRows, ABt)))

\* Multiply_MtMt( A, B, C )
Multiply_MtMt(h, a, b, c) ==
    LET A == h[a]
        B == h[b]
        AtBt(i, j) == SumProduct_xdxy(A.nRows, A.Data, Base(A, 0, i), A.nCols,
                                      B.Data, Base(B, j, 0), 0, 0)
    IN IF ~(NonEmpty(A) /\ NonEmpty(B) /\ A.nRows = B.nCols) THEN Aborted(h)
       ELSE Returned(AssignLocal(h, c, Product(A.nCols, B.nRows, AtBt)))

-----------------------------------------------------------------------------
(* The Gaussian layer (gaussian.cpp).  rand() is the C library's           *)
(* generator: a fixed function of its state, which srand() sets; it is     *)
(* modelled by a linear congruential generator of period RAND_MAX + 1.     *)
(* A deviate P*U, with P = sqrt(-2 ln R / R), U = n/RAND_MAX and           *)
(* R = R2/RAND_MAX^2, is the record [R2, n]: P is a function of R alone.   *)

RAND_MAX == 7
MaxSeed == 3       \* seeds given to InitializeRNG(int) are 0..MaxSeed
MaxDraws == 3      \* GaussianRNG() calls followed after a seeding
MaxRejections == 3 \* rejected pairs counted within one GaussianRNG() call

Seeds == 0..MaxSeed

\* the state rand() leaves; the value it returns is that state
rand(state) == (5 * state + 3) % (RAND_MAX + 1)

\* a double holding 0.0
NoDeviate == [R2 |-> 0, n |-> 0]

\* static bool Saved = false; static double S; and rand()'s state, which is
\* that of srand(1) until the program seeds it
RNG_Start == [state |-> 1 % (RAND_MAX + 1), Saved |-> FALSE, S |-> NoDeviate]

\* InitializeRNG( int seed )
InitializeRNG(g, seed) == [g EXCEPT !.state = seed % (RAND_MAX + 1)]

AcceptedNever(n1, n2) == FALSE

\* if (R<1), for U1 = n1/RAND_MAX and U2 = n2/RAND_MAX
Accepted(n1, n2) == n1 * n1 + n2 * n2 < RAND_MAX * RAND_MAX

\* 2.0*rand()/RAND_MAX - 1.0, times RAND_MAX, for rand() returning u
Uniform(u) == 2 * u - RAND_MAX

\* The loop while (true) of GaussianRNG(): draw pairs until R < 1.
RECURSIVE RejectionLoop(_)
RejectionLoop(state) ==
    LET s1 == rand(state)
        s2 == rand(s1)
        n1 == 2 * s1 - RAND_MAX
        n2 == 2 * s2 - RAND_MAX
        R2 == n1 * n1 + n2 * n2
    IN IF R2 < RAND_MAX * RAND_MAX
       THEN [state |-> s2, R2 |-> R2, n1 |-> n1, n2 |-> n2]
       ELSE RejectionLoop(s2)

GaussianRNGIgnoringCache(g) ==
    LET r == RejectionLoop(g.state)
    IN [g |-> [state |-> r.state, Saved |-> TRUE, S |-> [R2 |-> r.R2, n |-> r.n1]],
        value |-> [R2 |-> r.R2, n |-> r.n2]]

\* double GaussianRNG(): the generator state on return, and the value returned
GaussianRNG(g) ==
    IF g.Saved
    THEN [g |-> [g EXCEPT !.Saved = FALSE], value |-> g.S]
    ELSE LET r == RejectionLoop(g.state)
         IN [g |-> [state |-> r.state, Saved |-> TRUE, S |-> [R2 |-> r.R2, n |-> r.n1]],
             value |-> [R2 |-> r.R2, n |-> r.n2]]

\* An element store which counts down the columns first.
StoreColumnMajor(Z, i, j, v) == [Z EXCEPT !.Data[j * Z.nRows + i + 1] = v]

\* Z(i,j) = v, through double& operator()( int row, int col ), for an
\* element within the shape of Z
Store(Z, i, j, v) == [Z EXCEPT !.Data[i * Z.nCols + j + 1] = v]

\* The double loop of GaussianRNG( M, N, Z ): count scalar draws, in row-major
\* order, appended to data.
RECURSIVE FillLoop(_, _, _)
FillLoop(g, count, data) ==
    IF count = 0 THEN [g |-> g, data |-> data]
    ELSE LET d == GaussianRNG(g)
         IN FillLoop(d.g, count - 1, Append(data, d.value))

\* bool GaussianRNG( int M, int N, Matrix& Z ): ok is FALSE when an assert()
\* failed
GaussianRNG_Matrix(g, M, N) ==
    IF ~(M >= 1 /\ N >= 1) THEN [ok |-> FALSE, g |-> g, Z |-> Matrix_Null]
    ELSE LET f == FillLoop(g, M * N, << >>)
         IN [ok |-> TRUE, g |-> f.g,
             Z |-> [Resize(Matrix_Null, M, N) EXCEPT !.Data = f.data]]

-----------------------------------------------------------------------------
(* The solvers of linear_systems.cpp, which is not among the sources: they *)
(* are modelled from the specification (section 4.3).  Cholesky fails at   *)
(* the first diagonal whose squared value would not be positive; the k-th  *)
(* squared diagonal is M_k / M_(k-1), M_k the k-th leading principal       *)
(* minor, so the decomposition succeeds when every M_k is positive.  The   *)
(* minors are computed without fractions (Bareiss).                        *)

RECURSIVE PivotsPositive(_, _, _, _)
PivotsPositive(G, k, prev, n) ==
    IF G[k][k] <= 0 THEN FALSE
    ELSE IF k = n THEN TRUE
    ELSE PivotsPositive(
             [i \in 1..n |-> [j \in 1..n |->
                 IF i > k /\ j > k
                 THEN (G[k][k] * G[i][j] - G[i][k] * G[k][j]) \div prev
                 ELSE 0]],
             k + 1, G[k][k], n)

\* CholeskyDecomposition( A, L ): its success flag, for a square integer A
CholeskyDecomposition(A) ==
    PivotsPositive([i \in 1..A.nRows |-> [j \in 1..A.nCols |->
                       A.Data[(i - 1) * A.nCols + j]]], 1, 1, A.nRows)

\* RSPDInv( A, Ainv ): fails when Cholesky fails
RSPDInv(A) == CholeskyDecomposition(A)

\* LeastSquaresSolve( A, B, X ): Cholesky-factors the normal-equations
\* matrix AtA and fails when that fails
LeastSquaresSolve(AtA) == CholeskyDecomposition(AtA)

\* The sum of the terms of a sequence.
RECURSIVE SumOf(_)
SumOf(terms) == IF terms = << >> THEN 0 ELSE Head(terms) + SumOf(Tail(terms))

\* The matrix of shape nrows x ncols whose element (i, j) is the sum over
\* the inner index k < inner of x(i, k) * y(k, j).
ReferenceProduct(nrows, ncols, inner, x(_, _), y(_, _)) ==
    [nRows |-> nrows, nCols |-> ncols,
     Data |-> [e \in 1..(nrows * ncols) |->
                 LET i == (e - 1) \div ncols
                     j == (e - 1) % ncols
                 IN SumOf([k \in 1..inner |-> x(i, k - 1) * y(k - 1, j)])]]

\* The matrix record of the 0-based table F of shape nrows x ncols.
MatrixOfTable(nrows, ncols, F) ==
    [nRows |-> nrows, nCols |-> ncols,
     Data |-> [e \in 1..(nrows * ncols) |-> F[(e - 1) \div ncols][(e - 1) % ncols]]]

\* The square root of the model: the decompositions of the model meet only
\* perfect squares, and every quotient they form is exact.
ISqrt(s) == CHOOSE r \in 0..s : r * r <= s /\ s < (r + 1) * (r + 1)

\* The standard column-wise recurrence, columns 0..j-1 of L being done:
\* the squared diagonal is A[j,j] - sum_(k<j) L[j,k]^2, the decomposition
\* fails when it is not positive, and below the diagonal
\* L[i,j] = (A[i,j] - sum_(k<j) L[i,k]*L[j,k]) / L[j,j].  Of A only the
\* elements (i, j) with i >= j are read.
RECURSIVE CholeskyColumns(_, _, _)
CholeskyColumns(A, j, L) ==
    IF j = A.nRows THEN [flag |-> TRUE, L |-> L]
    ELSE LET s == Elem(A, j, j) - SumOf([k \in 1..j |-> L[j][k - 1] * L[j][k - 1]])
         IN IF s <= 0 THEN [flag |-> FALSE, L |-> L]
            ELSE CholeskyColumns(A, j + 1,
                   [i \in DOMAIN L |-> [c \in DOMAIN L |->
                      IF c # j \/ i < j THEN L[i][c]
                      ELSE IF i = j THEN ISqrt(s)
                      ELSE (Elem(A, i, j)
                            - SumOf([k \in 1..j |-> L[i][k - 1] * L[j][k - 1]]))
                           \div ISqrt(s)]])

ZeroTable(n) == [i \in 0..(n - 1) |-> [j \in 0..(n - 1) |-> 0]]

CholeskyReadingUpperTriangle(A) ==
    LET At == [A EXCEPT !.Data = [e \in 1..Len(A.Data) |->
                  Elem(A, (e - 1) % A.nCols, (e - 1) \div A.nCols)]]
        c == CholeskyColumns(At, 0, ZeroTable(A.nRows))
    IN [flag |-> c.flag, L |-> MatrixOfTable(A.nRows, A.nRows, c.L)]

\* CholeskyDecomposition( A, L ) for a square A: the success flag and L,
\* whose upper triangle is set to zero
CholeskyDecomposition_L(A) ==
    LET c == CholeskyColumns(A, 0, ZeroTable(A.nRows))
    IN [flag |-> c.flag, L |-> MatrixOfTable(A.nRows, A.nRows, c.L)]

\* Forward substitution, L*Y = B, rows 0..i-1 of the table Y being done.
RECURSIVE ForwardRows(_, _, _, _)
ForwardRows(L, B, i, Y) ==
    IF i = L.nRows THEN Y
    ELSE ForwardRows(L, B, i + 1,
           [Y EXCEPT ![i] = [c \in 0..(B.nCols - 1) |->
              (Elem(B, i, c) - SumOf([t \in 1..i |-> Elem(L, i, t - 1) * Y[t - 1][c]]))
              \div Elem(L, i, i)]])

\* Back substitution, L^T*X = Y, rows i+1..n-1 of the table X being done.
RECURSIVE BackRows(_, _, _, _)
BackRows(L, Y, i, X) ==
    IF i < 0 THEN X
    ELSE BackRows(L, Y, i - 1,
           [X EXCEPT ![i] = [c \in DOMAIN Y[i] |->
              (Y[i][c] - SumOf([t \in 1..(L.nRows - 1 - i) |->
                                   Elem(L, i + t, i) * X[i + t][c]]))
              \div Elem(L, i, i)]])

LeastSquaresWithoutBackSubstitution(A, B) ==
    LET at(i, j) == Elem(A, j, i)
        a(i, j) == Elem(A, i, j)
        b(i, j) == Elem(B, i, j)
        AtA == ReferenceProduct(A.nCols, A.nCols, A.nRows, at, a)
        AtB == ReferenceProduct(A.nCols, B.nCols, A.nRows, at, b)
        c == CholeskyDecomposition_L(AtA)
        Zero == [i \in 0..(A.nCols - 1) |-> [j \in 0..(B.nCols - 1) |-> 0]]
    IN IF ~c.flag THEN [flag |-> FALSE, X |-> Matrix_Null]
       ELSE [flag |-> TRUE,
             X |-> MatrixOfTable(A.nCols, B.nCols, ForwardRows(c.L, AtB, 0, Zero))]

\* LeastSquaresSolve( A, B, X ) for A (m x n) and B (m x k): the normal
\* equations AtA*X = AtB are formed, AtA is Cholesky-factored, and X comes
\* from a forward and a back substitution; the flag is false, and no X is
\* produced, when the decomposition fails.
LeastSquaresSolve_X(A, B) ==
    LET at(i, j) == Elem(A, j, i)
        a(i, j) == Elem(A, i, j)
        b(i, j) == Elem(B, i, j)
        AtA == ReferenceProduct(A.nCols, A.nCols, A.nRows, at, a)
        AtB == ReferenceProduct(A.nCols, B.nCols, A.nRows, at, b)
        c == CholeskyDecomposition_L(AtA)
        Zero == [i \in 0..(A.nCols - 1) |-> [j \in 0..(B.nCols - 1) |-> 0]]
    IN IF ~c.flag THEN [flag |-> FALSE, X |-> Matrix_Null]
       ELSE [flag |-> TRUE,
             X |-> MatrixOfTable(A.nCols, B.nCols,
                      BackRows(c.L, ForwardRows(c.L, AtB, 0, Zero), A.nCols - 1, Zero))]

\* An AffineTransformation which does not tolerate aliasing: Y is resized
\* and written element by element while X is still being read.
RECURSIVE AffineLoopInPlace(_, _, _, _, _, _)
AffineLoopInPlace(h, x, u, mu, y, e) ==
    IF e > h[y].nRows * h[y].nCols THEN h
    ELSE LET i == (e - 1) \div h[y].nCols
             j == (e - 1) % h[y].nCols
         IN AffineLoopInPlace(
               [h EXCEPT ![y].Data[e] =
                   SumOf([k \in 1..h[u].nRows |-> Elem(h[x], i, k - 1) * Elem(h[u], k - 1, j)])
                   + Elem(h[mu], 0, j)],
               x, u, mu, y, e + 1)

AffineTransformationInPlace(h, x, u, mu, y) ==
    LET m == h[x].nRows
        n == h[x].nCols
    IN IF ~(NonEmpty(h[x]) /\ h[u].nRows = n /\ h[u].nCols = n
            /\ h[mu].nRows = 1 /\ h[mu].nCols = n)
       THEN Aborted(h)
       ELSE Returned(AffineLoopInPlace(
                [h EXCEPT ![y] = IF y = x THEN h[x] ELSE Resize(h[y], m, n)],
                x, u, mu, y, 1))

\* AffineTransformation( X, U, mu, Y ) on the objects x, u, mu and y, for X
\* (m x n), U (n x n) and mu (1 x n): Y[i,j] = sum_k X[i,k]*U[k,j] + mu[0,j],
\* formed from X before Y is written, y being allowed to be x.
AffineTransformation_Y(h, x, u, mu, y) ==
    LET X == h[x]
        U == h[u]
        Mu == h[mu]
        XU(i, j) == SumOf([k \in 1..X.nCols |-> Elem(X, i, k - 1) * Elem(U, k - 1, j)])
                    + Elem(Mu, 0, j)
    IN IF ~(NonEmpty(X) /\ U.nRows = X.nCols /\ U.nCols = X.nCols
            /\ Mu.nRows = 1 /\ Mu.nCols = X.nCols)
       THEN Aborted(h)
       ELSE Returned(AssignLocal(h, y, Product(X.nRows, X.nCols, XU)))

\* AffineTransformation( X, U, mu, Y ): Y[i,j] = sum_k X[i,k]*U[k,j] + mu[j],
\* kept as the term [z, col]: z is row i of X and col is j
AffineTransformation(X) ==
    [X EXCEPT !.Data = [k \in 1..Len(X.Data) |->
        [z |-> SubSeq(X.Data, ((k - 1) \div X.nCols) * X.nCols + 1,
                              ((k - 1) \div X.nCols) * X.nCols + X.nCols),
         col |-> (k - 1) % X.nCols]]]

MVNormalRNGDrawsFirst(g, M, N, SigmaOK, X) ==
    LET z == GaussianRNG_Matrix(g, M, N)
    IN IF ~z.ok THEN [ok |-> FALSE, flag |-> FALSE, g |-> g, X |-> X]
       ELSE IF ~SigmaOK THEN [ok |-> TRUE, flag |-> FALSE, g |-> z.g, X |-> z.Z]
       ELSE [ok |-> TRUE, flag |-> TRUE, g |-> z.g, X |-> AffineTransformation(z.Z)]

\* bool MVNormalRNG( int M, const Matrix& Mu, const Matrix& Sigma, Matrix& X ),
\* for Mu (1xN) and Sigma (NxN), which pass its asserts; SigmaOK is what
\* CholeskyDecomposition( Sigma, L ) returns.  ok is FALSE when an assert()
\* failed in GaussianRNG( M, N, X ).
MVNormalRNG(g, M, N, SigmaOK, X) ==
    IF ~SigmaOK THEN [ok |-> TRUE, flag |-> FALSE, g |-> g, X |-> X]
    ELSE LET z == GaussianRNG_Matrix(g, M, N)
         IN IF ~z.ok THEN [ok |-> FALSE, flag |-> FALSE, g |-> g, X |-> X]
            ELSE [ok |-> TRUE, flag |-> TRUE, g |-> z.g, X |-> AffineTransformation(z.Z)]

-----------------------------------------------------------------------------
(* The Oneka assembly (oneka_engine.cpp).  The inputs of the model are     *)
(* integers; a quotient of the code is kept as numerator and divisor:      *)
(* row p of A is num[p] / Std[p], and b[p] is (Avg2[p]/2 - Phiw[p]) /      *)
(* Std[p].  Phiw[p] is the sequence of the well terms [Qw, r2], each       *)
(* standing for Qw/FOUR_PI * log(r2): the empty sequence is 0.             *)

MaxSims == 2       \* the largest nSims of the model
NCoef == 6

RECURSIVE WellLoop(_, _, _, _)
WellLoop(in, p, w, Phiw) ==
    IF w > in.W THEN Phiw
    ELSE LET dX == in.piez[p].x - in.wells[w].x
             dY == in.piez[p].y - in.wells[w].y
         IN WellLoop(in, p, w + 1, Append(Phiw, [Qw |-> in.wells[w].Q, r2 |-> dX * dX + dY * dY]))

AssembleRowBoundaryUnconfined(in, p) ==
    LET head == in.piez[p].E - in.Base
        Sp == in.piez[p].S
        dX == in.piez[p].x - in.Xo
        dY == in.piez[p].y - in.Yo
    IN [num |-> <<dX * dX, dY * dY, dX * dY, dX, dY, 1>>,
        Std |-> IF head <= in.H THEN in.k * head * Sp ELSE in.k * in.H * Sp,
        Avg2 |-> IF head <= in.H THEN in.k * (head * head + Sp * Sp)
                 ELSE in.k * in.H * (2 * head - in.H),
        Phiw |-> WellLoop(in, p, 1, << >>)]

\* The body of the loop over the piezometers (lines 120-156), for one p.
AssembleRow(in, p) ==
    LET head == in.piez[p].E - in.Base
        Sp == in.piez[p].S
        Avg2 == IF head < in.H THEN in.k * (head * head + Sp * Sp)
                ELSE in.k * in.H * (2 * head - in.H)
        Std == IF head < in.H THEN in.k * head * Sp ELSE in.k * in.H * Sp
        dX == in.piez[p].x - in.Xo
        dY == in.piez[p].y - in.Yo
    IN [num |-> <<dX * dX, dY * dY, dX * dY, dX, dY, 1>>,
        Std |-> Std, Avg2 |-> Avg2, Phiw |-> WellLoop(in, p, 1, << >>)]

\* Lines 114-157: A (P x 6) and b (P x 1).
Assemble(in) ==
    LET rows == [p \in 1..in.P |-> AssembleRow(in, p)]
        Z == Matrix_Dim(in.P, NCoef)
    IN [num |-> [Z EXCEPT !.Data = [k \in 1..Len(Z.Data) |->
                     rows[((k - 1) \div NCoef) + 1].num[((k - 1) % NCoef) + 1]]],
        rows |-> rows]

EngineStatisticsNeverThrows(AtA) ==
    [thrown |-> FALSE,
     rspd |-> IF RSPDInv(AtA) THEN "ok" ELSE "failed",
     lsq |-> IF LeastSquaresSolve(AtA) THEN "ok" ELSE "failed",
     calls |-> <<"Multiply_MtM", "RSPDInv", "LeastSquaresSolve">>]

\* Lines 159-167: the covariance and the least squares fit.  AtA is what
\* Multiply_MtM( A, A, Cov ) left in Cov; with every Std[p] nonzero its
\* leading minors have the signs of those of the numerators' AtA, which is
\* the matrix given here.
EngineStatistics(AtA) ==
    IF ~RSPDInv(AtA)
    THEN [thrown |-> TRUE, rspd |-> "failed", lsq |-> "not called",
          calls |-> <<"Multiply_MtM", "RSPDInv">>]
    ELSE IF ~LeastSquaresSolve(AtA)
    THEN [thrown |-> TRUE, rspd |-> "ok", lsq |-> "failed",
          calls |-> <<"Multiply_MtM", "RSPDInv", "LeastSquaresSolve">>]
    ELSE [thrown |-> FALSE, rspd |-> "ok", lsq |-> "ok",
          calls |-> <<"Multiply_MtM", "RSPDInv", "LeastSquaresSolve">>]

\* Lines 169-173: the realizations.  Cov is the inverse RSPDInv left, as
\* computed in doubles: CovOK is what CholeskyDecomposition( Cov, L ) returns
\* in MVNormalRNG, which the rounding of an ill-conditioned inverse decides
\* and the numerators kept here do not.
EngineRealizations(g, nSims, CovOK) ==
    MVNormalRNG(g, nSims, NCoef, CovOK, Matrix_Dim(nSims, NCoef))

\* EngineReturn Engine( ... ), called with the generator in state g:
\* outcome "returned" with the bundle ret, "SingularSystem" (thrown) or
\* "abort" (a failed assert()), the calls made, the generator state left
\* and sys, the rows of the system assembled (A and b).  The value
\* MVNormalRNG returns is not looked at (line 173).
Engine(in, g, CovOK) ==
    LET A == Assemble(in)
        h == [o \in {"A", "Cov"} |-> IF o = "A" THEN A.num ELSE Matrix_Dim(NCoef, NCoef)]
        mtm == Multiply_MtM(h, "A", "A", "Cov")
        st == EngineStatistics(mtm.h["Cov"])
        mvn == EngineRealizations(g, in.nSims, CovOK)
        none == [nSims |-> 0 - 1, a |-> << >>]
    IN IF ~mtm.ok
       THEN [outcome |-> "abort", rspd |-> "not called", lsq |-> "not called",
             mvn |-> "not called", calls |-> <<"Multiply_MtM">>, ret |-> none, g |-> g,
             sys |-> A.rows]
       ELSE IF st.thrown
       THEN [outcome |-> "SingularSystem", rspd |-> st.rspd, lsq |-> st.lsq,
             mvn |-> "not called", calls |-> st.calls, ret |-> none, g |-> g, sys |-> A.rows]
       ELSE IF ~mvn.ok
       THEN [outcome |-> "abort", rspd |-> st.rspd, lsq |-> st.lsq, mvn |-> "assert",
             calls |-> st.calls \o <<"Transpose", "MVNormalRNG">>, ret |-> none, g |-> mvn.g,
             sys |-> A.rows]
       ELSE [outcome |-> "returned", rspd |-> st.rspd, lsq |-> st.lsq,
             mvn |-> IF mvn.flag THEN "true" ELSE "false",
             calls |-> st.calls \o <<"Transpose", "MVNormalRNG">>,
             ret |-> [nSims |-> in.nSims,
                      a |-> [i \in 1..in.nSims |->
                               SubSeq(mvn.X.Data, (i - 1) * NCoef + 1, i * NCoef)]],
             g |-> mvn.g, sys |-> A.rows]

-----------------------------------------------------------------------------
(* The norms.  Each gives [ok, v]: ok is FALSE when the assert() failed,   *)
(* else v is the value returned.                                           *)

\* fabs( x )
Abs(x) == IF x < 0 THEN 0 - x ELSE x

NoValue == [ok |-> FALSE, v |-> 0]
Value(v) == [ok |-> TRUE, v |-> v]

\* The loops of MaxAbs, by columns: t counts the elements visited.
RECURSIVE MaxAbsLoop(_, _, _)
MaxAbsLoop(A, t, max_abs) ==
    IF t = A.nRows * A.nCols THEN max_abs
    ELSE LET x == Abs(Elem(A, t % A.nRows, t \div A.nRows))
         IN MaxAbsLoop(A, t + 1, IF x > max_abs THEN x ELSE max_abs)

\* MaxAbs( A )
MaxAbs(A) == IF ~NonEmpty(A) THEN NoValue ELSE Value(MaxAbsLoop(A, 0, 0))

\* The inner loop of L1Norm: the sum of column j from row i on.
RECURSIVE ColumnAbsSum(_, _, _, _)
ColumnAbsSum(A, j, i, Sum) ==
    IF i = A.nRows THEN Sum ELSE ColumnAbsSum(A, j, i + 1, Sum + Abs(Elem(A, i, j)))

RECURSIVE L1NormLoop(_, _, _)
L1NormLoop(A, j, MaxColSum) ==
    IF j = A.nCols THEN MaxColSum
    ELSE LET Sum == ColumnAbsSum(A, j, 0, 0)
         IN L1NormLoop(A, j + 1, IF Sum > MaxColSum THEN Sum ELSE MaxColSum)

\* L1Norm( A )
L1Norm(A) == IF ~NonEmpty(A) THEN NoValue ELSE Value(L1NormLoop(A, 0, 0))

\* The inner loop of LInfNorm: the sum of row i from column j on.
RECURSIVE RowAbsSum(_, _, _, _)
RowAbsSum(A, i, j, Sum) ==
    IF j = A.nCols THEN Sum ELSE RowAbsSum(A, i, j + 1, Sum + Abs(Elem(A, i, j)))

RECURSIVE LInfNormLoop(_, _, _)
LInfNormLoop(A, i, MaxRowSum) ==
    IF i = A.nRows THEN MaxRowSum
    ELSE LET Sum == RowAbsSum(A, i, 0, 0)
         IN LInfNormLoop(A, i + 1, IF Sum > MaxRowSum THEN Sum ELSE MaxRowSum)

LInfNormAsL1Norm(A) == L1Norm(A)

\* The loop of Trace: the sum of the diagonal elements i..nRows-1.
RECURSIVE TraceLoop(_, _, _)
TraceLoop(A, i, Sum) ==
    IF i >= A.nRows THEN Sum ELSE TraceLoop(A, i + 1, Sum + Elem(A, i, i))

TraceOfLeadingSquare(A) ==
    IF ~NonEmpty(A) THEN NoValue
    ELSE Value(TraceLoop([A EXCEPT !.nRows = Min(A.nRows, A.nCols)], 0, 0))

\* Trace( A )
Trace(A) ==
    IF ~(NonEmpty(A) /\ A.nRows = A.nCols) THEN NoValue ELSE Value(TraceLoop(A, 0, 0))

\* Matrix::operator()( row, col ), with its two assert() lines
ElementAt(M, row, col) ==
    IF ~(row >= 0 /\ row < M.nRows /\ col >= 0 /\ col < M.nCols) THEN NoValue
    ELSE Value(M.Data[row * M.nCols + col + 1])

\* Matrix::Base( row, col ), with its two assert() lines: the offset of the
\* pointer returned
BaseAt(M, row, col) ==
    IF ~(row >= 0 /\ row < M.nRows /\ col >= 0 /\ col < M.nCols) THEN NoValue
    ELSE Value(row * M.nCols + col)

\* LInfNorm( A )
LInfNorm(A) == IF ~NonEmpty(A) THEN NoValue ELSE Value(LInfNormLoop(A, 0, 0))

\* The loops of FNorm, by rows: t counts the elements visited.
RECURSIVE SquaresLoop(_, _, _)
SquaresLoop(A, t, Sum) ==
    IF t = A.nRows * A.nCols THEN Sum
    ELSE LET x == Elem(A, t \div A.nCols, t % A.nCols)
         IN SquaresLoop(A, t + 1, Sum + x * x)

\* FNorm( A ): v is Sum, whose square root is returned
FNorm(A) == IF ~NonEmpty(A) THEN NoValue ELSE Value(SquaresLoop(A, 0, 0))

-----------------------------------------------------------------------------
(* The scenarios.  Each drives one part of the program; the variables of   *)
(* the other parts keep their initial values.                              *)

\* The record of a call: the routine, the names of its Matrix operands (c is
\* the object written) and, for Resize, the requested shape and what the
\* object held before.
NoCall == [op |-> "none", a |-> "-", b |-> "-", c |-> "-", r |-> 0, n |-> 0, prev |-> "-"]
Call(op, a, b, c) == [NoCall EXCEPT !.op = op, !.a = a, !.b = b, !.c = c]
Held(M, r, n) ==
    IF M.nRows = r /\ M.nCols = n
    THEN IF \E k \in 1..Len(M.Data) : M.Data[k] # 0
         THEN "same shape, nonzero" ELSE "same shape, zero"
    ELSE "other shape"

\* No routine has returned a value.
NoResult == [op |-> "none", outcome |-> "none", v |-> 0]

NotParsed == [outcome |-> "pending", M |-> Matrix_Null]

NoBundle == [k |-> 1, H |-> 1, Base |-> 0, W |-> 0, wells |-> << >>, P |-> 0,
             piez |-> << >>, Xo |-> 0, Yo |-> 0, nSims |-> 0]
EngineIdle == [pc |-> "idle", in |-> NoBundle, outcome |-> "none", rspd |-> "not called",
               lsq |-> "not called", mvn |-> "not called", calls |-> << >>,
               ret |-> [nSims |-> 0 - 1, a |-> << >>], before |-> RNG_Start,
               sys |-> << >>]

\* The program at its start: the objects of Obj default-constructed, no
\* literal, the generator as the C library starts it, Engine not called.
Init ==
    /\ mats = [o \in Obj |-> Matrix_Null] /\ status = "running" /\ last = NoCall
    /\ lit = << >> /\ parsed = NotParsed
    /\ rng = RNG_Start /\ seeded = 0 - 1 /\ draws = << >>
    /\ eng = EngineIdle /\ result = NoResult

-----------------------------------------------------------------------------
(* The matrix scenario: constructions, Resize, assignments and arithmetic  *)
(* routines on the objects of Obj.  A construction in a slot stands for    *)
(* the object of that name being destroyed and built anew.                 *)

InRange(h) ==
    \A o \in Obj :
        /\ h[o].nRows \in Dims /\ h[o].nCols \in Dims
        /\ h[o].nRows * h[o].nCols <= MaxCells
        /\ \A k \in 1..Len(h[o].Data) : h[o].Data[k] \in Vals

OtherVarsOfMatrix == <<lit, parsed, rng, seeded, draws, eng, result>>

\* A life-cycle operation, which has no assert() that the scenario can fail.
Put(o, M, call) ==
    /\ status = "running"
    /\ mats' = [mats EXCEPT ![o] = M]
    /\ InRange(mats')
    /\ status' = "running"
    /\ last' = call
    /\ UNCHANGED OtherVarsOfMatrix

\* An arithmetic routine: res is the [ok, h] it gives.
Routine(res, call) ==
    /\ status = "running"
    /\ mats' = res.h
    /\ InRange(mats')
    /\ status' = IF res.ok THEN "running" ELSE "aborted"
    /\ last' = call
    /\ UNCHANGED OtherVarsOfMatrix

SmallLiterals == { <<";">>, <<"1", ",", "0">>, <<"1", ";", "0", ",", "1">>, <<"1", ";">> }

DoMatrix_Null(o) == Put(o, Matrix_Null, Call("Matrix()", "-", "-", o))
DoMatrix_Copy(o, src) == Put(o, Matrix_Copy(mats[src]), Call("Matrix(Matrix)", src, "-", o))
DoMatrix_Dim(o, r, n) ==
    Put(o, Matrix_Dim(r, n), Call("Matrix(int,int)", "-", "-", o))
DoMatrix_Fill(o, r, n, a) ==
    Put(o, Matrix_Fill(r, n, a), Call("Matrix(int,int,double)", "-", "-", o))
DoMatrix_Array(o, r, n, data) ==
    Put(o, Matrix_Array(r, n, data), Call("Matrix(int,int,double*)", "-", "-", o))
DoMatrix_String(o, str) ==
    /\ Matrix_String(str).outcome = "ok"
    /\ Put(o, Matrix_String(str).M, Call("Matrix(string)", "-", "-", o))
DoResize(o, r, n) ==
    Put(o, Resize(mats[o], r, n),
        [Call("Resize", "-", "-", o) EXCEPT !.r = r, !.n = n, !.prev = Held(mats[o], r, n)])
DoAssign(o, src) ==
    /\ status = "running"
    /\ mats' = Assign(mats, o, src)
    /\ status' = "running"
    /\ last' = Call("operator=", src, "-", o)
    /\ UNCHANGED OtherVarsOfMatrix
DoAssignScalar(o, a) ==
    Put(o, AssignScalar(mats[o], a), Call("operator=(double)", "-", "-", o))

DoTranspose(a, c) == Routine(Transpose(mats, a, c), Call("Transpose", a, "-", c))
DoNegative(a, c) == Routine(Negative(mats, a, c), Call("Negative", a, "-", c))
DoAdd_aM(s, a, c, order, g) ==
    Routine(Add_aM(mats, s, a, c, order, g), Call("Add_aM", a, "-", c))
DoMultiply_aM(s, a, c, order, g) ==
    Routine(Multiply_aM(mats, s, a, c, order, g), Call("Multiply_aM", a, "-", c))
DoAdd_MM(a, b, c) == Routine(Add_MM(mats, a, b, c), Call("Add_MM", a, b, c))
DoSubtract_MM(a, b, c) == Routine(Subtract_MM(mats, a, b, c), Call("Subtract_MM", a, b, c))
DoMultiply_MM(a, b, c) == Routine(Multiply_MM(mats, a, b, c), Call("Multiply_MM", a, b, c))
DoMultiply_MtM(a, b, c) == Routine(Multiply_MtM(mats, a, b, c), Call("Multiply_MtM", a, b, c))
DoMultiply_MMt(a, b, c) == Routine(Multiply_MMt(mats, a, b, c), Call("Multiply_MMt", a, b, c))
DoMultiply_MtMt(a, b, c) ==
    Routine(Multiply_MtMt(mats, a, b, c), Call("Multiply_MtMt", a, b, c))

Orders == {"read_first", "increment_first"}

NextMatrix ==
    \/ \E o \in Obj : DoMatrix_Null(o)
    \/ \E o, src \in Obj : o # src /\ DoMatrix_Copy(o, src)
    \/ \E o \in Obj, r, n \in Dims : DoMatrix_Dim(o, r, n)
    \/ \E o \in Obj, r, n \in Dims, a \in Vals : DoMatrix_Fill(o, r, n, a)
    \/ \E o \in Obj, r, n \in Dims :
           /\ r * n <= MaxCells
           /\ \E data \in [1..(r * n) -> Vals] : DoMatrix_Array(o, r, n, data)
    \/ \E o \in Obj, str \in SmallLiterals : DoMatrix_String(o, str)
    \/ \E o \in Obj, r, n \in Dims : DoResize(o, r, n)
    \/ \E o, src \in Obj : DoAssign(o, src)
    \/ \E o \in Obj, a \in Vals : DoAssignScalar(o, a)
    \/ \E a, c \in Obj : DoTranspose(a, c)
    \/ \E a, c \in Obj : DoNegative(a, c)
    \/ \E s \in Vals, a, c \in Obj, order \in Orders, g \in Vals :
           (order = "read_first" => g = 0) /\ DoAdd_aM(s, a, c, order, g)
    \/ \E s \in Vals, a, c \in Obj, order \in Orders, g \in Vals :
           (order = "read_first" => g = 0) /\ DoMultiply_aM(s, a, c, order, g)
    \/ \E a, b, c \in Obj : DoAdd_MM(a, b, c)
    \/ \E a, b, c \in Obj : DoSubtract_MM(a, b, c)
    \/ \E a, b, c \in Obj : DoMultiply_MM(a, b, c)
    \/ \E a, b, c \in Obj : DoMultiply_MtM(a, b, c)
    \/ \E a, b, c \in Obj : DoMultiply_MMt(a, b, c)
    \/ \E a, b, c \in Obj : DoMultiply_MtMt(a, b, c)

SpecMatrix ==
    Init /\ [][NextMatrix]_vars

-----------------------------------------------------------------------------
(* The parsing scenario: one literal, handed to the textual constructor.   *)

LitChars == {"1", "2", ",", ";", " ", "\t"}
EnumeratedLiterals == UNION {[1..len -> LitChars] : len \in 0..MaxLitLen}
DocumentedLiterals ==
    { <<"1", ",", "2", ",", "3", ";", "4", ",", "5", ",", "6">>,
      <<"1", ",", ",", ";", ",", ",", "6">>,
      <<"1", ",", "2", ",", "3", ";", "4", ",", "5", ",", "6", ";">>,
      <<"1", ",", ",", ";", "4", ",", "5", ",">> }
Literals == EnumeratedLiterals \cup DocumentedLiterals

DoParse ==
    /\ parsed.outcome = "pending"
    /\ parsed' = Matrix_String(lit)
    /\ UNCHANGED <<lit, mats, status, last, rng, seeded, draws, eng, result>>

NextParse == DoParse

\* The program about to construct a Matrix from a literal.
InitParse ==
    /\ mats = [o \in Obj |-> Matrix_Null] /\ status = "running" /\ last = NoCall
    /\ lit \in Literals /\ parsed = NotParsed
    /\ rng = RNG_Start /\ seeded = 0 - 1 /\ draws = << >>
    /\ eng = EngineIdle /\ result = NoResult

SpecParse == InitParse /\ [][NextParse]_vars

-----------------------------------------------------------------------------
(* The generator scenario: seedings and scalar draws in any order.         *)

DoInitializeRNG(seed) ==
    /\ rng' = InitializeRNG(rng, seed)
    /\ seeded' = seed
    /\ draws' = << >>
    /\ UNCHANGED <<mats, status, last, lit, parsed, eng, result>>

\* InitializeRNG(): srand( time(NULL) ), any state
DoInitializeRNG_Time(t) ==
    /\ rng' = InitializeRNG(rng, t)
    /\ seeded' = 0 - 1
    /\ draws' = << >>
    /\ UNCHANGED <<mats, status, last, lit, parsed, eng, result>>

DoGaussianRNG ==
    /\ Len(draws) < MaxDraws
    /\ rng' = GaussianRNG(rng).g
    /\ draws' = Append(draws, GaussianRNG(rng).value)
    /\ UNCHANGED <<seeded, mats, status, last, lit, parsed, eng, result>>

NextRNG ==
    \/ \E seed \in Seeds : DoInitializeRNG(seed)
    \/ \E t \in 0..RAND_MAX : DoInitializeRNG_Time(t)
    \/ DoGaussianRNG

SpecRNG ==
    Init /\ [][NextRNG]_vars

-----------------------------------------------------------------------------
(* The engine scenario: the generator is used, then Engine is called once. *)
(* The bundles have six piezometers around the origin (0,0): five on the   *)
(* axes and a sixth which is either off the axes (the six rows of A are    *)
(* independent) or a repeat of the first (all six lie on the conic xy = 0, *)
(* and AtA is singular).                                                   *)

Piezometer(x, y, E) == [x |-> x, y |-> y, E |-> E, S |-> 1]
OnAxes(E) == << Piezometer(0, 0, E), Piezometer(1, 0, E), Piezometer(0 - 1, 0, E),
                Piezometer(0, 1, E), Piezometer(0, 0 - 1, E) >>
PiezometerSets ==
    { Append(OnAxes(E), Piezometer(x, y, E)) : E \in {0 - 1, 1, 2, 3}, x \in {0, 1}, y \in {0, 1} }
WellSets == { << >>, << [x |-> 2, y |-> 2, Q |-> 1] >> }

Bundle(piez, wells, nSims) ==
    [k |-> 1, H |-> 2, Base |-> 0, W |-> Len(wells), wells |-> wells, P |-> Len(piez),
     piez |-> piez, Xo |-> 0, Yo |-> 0, nSims |-> nSims]
Bundles == { Bundle(piez, wells, nSims) :
                 piez \in PiezometerSets, wells \in WellSets, nSims \in 0..MaxSims }

DoEngine(in) ==
    /\ eng.pc = "idle"
    /\ \E CovOK \in BOOLEAN : \E res \in {Engine(in, rng, CovOK)} :
          /\ eng' = [pc |-> "done", in |-> in, outcome |-> res.outcome, rspd |-> res.rspd,
                     lsq |-> res.lsq, mvn |-> res.mvn, calls |-> res.calls, ret |-> res.ret,
                     before |-> rng, sys |-> res.sys]
          /\ rng' = res.g
    /\ UNCHANGED <<seeded, draws, mats, status, last, lit, parsed, result>>

UseGenerator ==
    /\ eng.pc = "idle"
    /\ \/ \E seed \in Seeds : DoInitializeRNG(seed)
       \/ DoGaussianRNG

NextEngine ==
    \/ UseGenerator
    \/ \E in \in Bundles : DoEngine(in)

SpecEngine ==
    Init /\ [][NextEngine]_vars

Spec == SpecMatrix

-----------------------------------------------------------------------------
(* Properties of the Matrix life cycle (specification SpecMatrix).   *)

AllZero(M) == \A k \in 1..Len(M.Data) : M.Data[k] = 0
IsNull(M) == M.nRows = 0 /\ M.nCols = 0

\* C1: after any sequence of constructions, Resize calls and assignments,
\* every Matrix has row and column counts both zero or both positive, and
\* its buffer holds exactly rows*cols elements.
C1_ShapeInvariant ==
    \A o \in Obj :
        /\ IsNull(mats[o]) \/ NonEmpty(mats[o])
        /\ Len(mats[o].Data) = mats[o].nRows * mats[o].nCols

\* The heap with one more object, "T", which no operand names.
WithScratch(h) == [o \in Obj \cup {"T"} |-> IF o \in Obj THEN h[o] ELSE Matrix_Null]

\* What the routine of the call leaves in a distinct output object, when
\* run on the heap h.  (The call record keeps neither the scalar of Add_aM
\* and Multiply_aM nor the evaluation order and the value read past the
\* buffer: every one is considered.)
InDistinctOutput(h, call) ==
    LET g == WithScratch(h)
        a == call.a
        b == call.b
    IN CASE call.op = "Transpose" -> {Transpose(g, a, "T").h["T"]}
         [] call.op = "Negative" -> {Negative(g, a, "T").h["T"]}
         [] call.op = "Add_aM" ->
                {Add_aM(g, s, a, "T", order, v).h["T"] :
                     s \in Vals, order \in Orders, v \in Vals}
         [] call.op = "Multiply_aM" ->
                {Multiply_aM(g, s, a, "T", order, v).h["T"] :
                     s \in Vals, order \in Orders, v \in Vals}
         [] call.op = "Add_MM" -> {Add_MM(g, a, b, "T").h["T"]}
         [] call.op = "Subtract_MM" -> {Subtract_MM(g, a, b, "T").h["T"]}
         [] call.op = "Multiply_MM" -> {Multiply_MM(g, a, b, "T").h["T"]}
         [] call.op = "Multiply_MtM" -> {Multiply_MtM(g, a, b, "T").h["T"]}
         [] call.op = "Multiply_MMt" -> {Multiply_MMt(g, a, b, "T").h["T"]}
         [] call.op = "Multiply_MtMt" -> {Multiply_MtMt(g, a, b, "T").h["T"]}

ArithmeticRoutines ==
    {"Transpose", "Negative", "Add_aM", "Multiply_aM", "Add_MM", "Subtract_MM",
     "Multiply_MM", "Multiply_MtM", "Multiply_MMt", "Multiply_MtMt"}

\* C2: an arithmetic routine called with its output C being the same
\* object as input A or input B leaves in C the values it leaves in a
\* distinct output matrix.
C2_AliasingTolerated ==
    [][ (status' = "running" /\ last'.op \in ArithmeticRoutines
            /\ last'.c \in {last'.a, last'.b})
        => mats'[last'.c] \in InDistinctOutput(mats, last') ]_vars

\* C7 as stated: Resize(m', n') leaves an m' x n' matrix of zeros, whatever
\* the matrix held.
C7_ResizeLeavesRequestedShape ==
    last.op = "Resize" =>
        /\ mats[last.c].nRows = last.r /\ mats[last.c].nCols = last.n
        /\ Len(mats[last.c].Data) = last.r * last.n
        /\ AllZero(mats[last.c])

\* C7, amended: Resize(m', n') with m' and n' positive leaves an m' x n'
\* matrix whose every element is zero, also when (m', n') is the current
\* shape; with m' or n' zero it leaves a matrix without elements, which is
\* 0 x 0 unless the matrix already had the shape (m', n').
C7_ResizeZeroFills ==
    last.op = "Resize" =>
        LET M == mats[last.c]
        IN /\ AllZero(M)
           /\ Len(M.Data) = M.nRows * M.nCols
           /\ IF last.r > 0 /\ last.n > 0
              THEN M.nRows = last.r /\ M.nCols = last.n
              ELSE /\ M.Data = << >>
                   /\ IF last.prev = "other shape" THEN IsNull(M)
                      ELSE M.nRows = last.r /\ M.nCols = last.n

\* A Resize to the shape the matrix has, which held a nonzero element.
C7_Witness ==
    /\ last.op = "Resize" /\ last.prev = "same shape, nonzero"
    /\ NonEmpty(mats[last.c]) /\ AllZero(mats[last.c])

\* C8 as stated: Add_MM or Subtract_MM applied to two 0x0 matrices
\* completes and yields a 0x0 matrix.
C8_EmptySumCompletes ==
    [][ (last'.op \in {"Add_MM", "Subtract_MM"}
            /\ IsNull(mats[last'.a]) /\ IsNull(mats[last'.b]))
        => (status' = "running" /\ IsNull(mats'[last'.c])) ]_vars

\* C8, amended: Add_MM or Subtract_MM applied to two 0x0 matrices is a
\* contract violation: the assertion fails, the program stops and no
\* matrix is changed.
C8_EmptySumIsContractViolation ==
    [][ (last'.op \in {"Add_MM", "Subtract_MM"}
            /\ IsNull(mats[last'.a]) /\ IsNull(mats[last'.b]))
        => (status' = "aborted" /\ mats' = mats) ]_vars

\* Add_MM was called on two 0x0 matrices.
C8_Witness ==
    /\ last.op = "Add_MM" /\ status = "aborted"
    /\ IsNull(mats[last.a]) /\ IsNull(mats[last.b])

-----------------------------------------------------------------------------
(* Properties of the generator (specification SpecRNG).              *)

\* The generator as C3 describes it after InitializeRNG( seed ): rand()
\* seeded and the cache slot empty.
FreshlySeeded(seed) ==
    [state |-> seed % (RAND_MAX + 1), Saved |-> FALSE, S |-> NoDeviate]

\* C3: after InitializeRNG(seed) the values returned by the following
\* GaussianRNG() calls depend only on the seed: they are those of a
\* generator seeded with an empty cache slot, whatever number of
\* GaussianRNG() calls preceded the seeding.
C3_SeedingClearsCache ==
    seeded >= 0 =>
        /\ draws = FillLoop(FreshlySeeded(seeded), Len(draws), << >>).data
        /\ (draws = << >> => ~rng.Saved)

-----------------------------------------------------------------------------
(* Properties of the textual constructor (specification SpecParse).  *)

NoBlank(s) == \A k \in 1..Len(s) : ~IsWs(s[k])
CountOf(s, ch) == Cardinality({k \in 1..Len(s) : s[k] = ch})

\* C4: a literal with r non-empty row segments followed by a final ';'
\* yields a matrix with r+1 rows whose last row is all zero.  (Literals
\* without blanks, each row segment non-empty.)
C4_TrailingSemicolonAddsZeroRow ==
    ( /\ parsed.outcome # "pending"
      /\ Len(lit) >= 2 /\ NoBlank(lit)
      /\ lit[Len(lit)] = ";" /\ lit[1] # ";"
      /\ \A k \in 1..(Len(lit) - 1) : ~(lit[k] = ";" /\ lit[k + 1] = ";") )
    => /\ parsed.outcome = "ok"
       /\ parsed.M.nRows = CountOf(lit, ";") + 1
       /\ \A j \in 1..parsed.M.nCols :
              parsed.M.Data[(parsed.M.nRows - 1) * parsed.M.nCols + j] = 0

IsSeparator(ch) == ch \in {",", ";"}

\* The blank at position i of s is around a token: the run of blanks it is
\* in touches a separator or an end of the literal.
AroundToken(s, i) ==
    \/ \E j \in 1..i : /\ \A k \in j..i : IsWs(s[k])
                       /\ (j = 1 \/ IsSeparator(s[j - 1]))
    \/ \E j \in i..Len(s) : /\ \A k \in i..j : IsWs(s[k])
                            /\ (j = Len(s) \/ IsSeparator(s[j + 1]))

\* s with the spaces and tabs around its tokens removed, from position i on
RECURSIVE Stripped(_, _)
Stripped(s, i) ==
    IF i > Len(s) THEN << >>
    ELSE IF IsWs(s[i]) /\ AroundToken(s, i) THEN Stripped(s, i + 1)
    ELSE <<s[i]>> \o Stripped(s, i + 1)

\* C5: the matrix parsed from a literal is the matrix parsed from the same
\* literal with all spaces and tabs around tokens removed, and parsing
\* completes without an out-of-range access.
C5_BlanksIgnored ==
    parsed.outcome # "pending" =>
        /\ parsed.outcome # "out_of_range"
        /\ parsed = Matrix_String(Stripped(lit, 1))

\* The pieces of s between the occurrences of sep.
RECURSIVE Split(_, _)
Split(s, sep) ==
    IF \A k \in 1..Len(s) : s[k] # sep THEN <<s>>
    ELSE LET i == CHOOSE k \in 1..Len(s) : s[k] = sep /\ \A j \in 1..(k - 1) : s[j] # sep
         IN <<SubSeq(s, 1, i - 1)>> \o Split(SubSeq(s, i + 1, Len(s)), sep)

\* The matrix C6 describes: a row per row segment, c+1 tokens for c
\* commas, the widest row's token count as column count, zeros elsewhere.
MatrixOfSegments(s) ==
    LET segs == Split(s, ";")
        toks == [i \in 1..Len(segs) |-> Split(segs[i], ",")]
        m == Len(segs)
        n == CHOOSE w \in 0..Len(s) + 1 :
                 /\ \A i \in 1..m : Len(toks[i]) <= w
                 /\ \E i \in 1..m : Len(toks[i]) = w
    IN [nRows |-> m, nCols |-> n,
        Data |-> [k \in 1..(m * n) |->
                    LET i == ((k - 1) \div n) + 1
                        j == ((k - 1) % n) + 1
                    IN IF j <= Len(toks[i]) THEN TokenValue(toks[i][j]) ELSE 0]]

\* C6: each row segment with c commas contributes c+1 tokens (also when
\* the last token of the last row is empty), an empty token is 0, the row
\* count is the number of row segments, the column count the largest token
\* count, and shorter rows are padded with zeros.  (Literals without
\* blanks which do not end in ';'.)
C6_TokensPerRow ==
    ( /\ parsed.outcome # "pending"
      /\ lit # << >> /\ NoBlank(lit) /\ lit[Len(lit)] # ";" )
    => parsed = [outcome |-> "ok", M |-> MatrixOfSegments(lit)]

-----------------------------------------------------------------------------
(* Properties of Engine (specification SpecEngine).                  *)

\* C9: with nSims = 0, P >= 6 and a non-singular system, Engine returns
\* normally with nSims = 0 and an empty set of realizations.
C9_ZeroSimsAccepted ==
    ( /\ eng.pc = "done" /\ eng.in.nSims = 0 /\ eng.in.P >= NCoef
      /\ eng.rspd = "ok" /\ eng.lsq = "ok" )
    => /\ eng.outcome = "returned"
       /\ eng.ret = [nSims |-> 0, a |-> << >>]

\* C10: Engine signals SingularSystem exactly when RSPDInv or
\* LeastSquaresSolve reports failure; then no bundle is returned, the
\* generator is as it was at the call, MVNormalRNG is not called and no
\* call is made twice.
C10_SingularSystemSurfaced ==
    eng.pc = "done" =>
        /\ eng.outcome = "SingularSystem" <=> (eng.rspd = "failed" \/ eng.lsq = "failed")
        /\ eng.outcome = "SingularSystem" =>
               /\ eng.ret = [nSims |-> 0 - 1, a |-> << >>]
               /\ rng = eng.before
               /\ \A k \in 1..Len(eng.calls) : eng.calls[k] # "MVNormalRNG"
               /\ \A j, k \in 1..Len(eng.calls) : eng.calls[j] = eng.calls[k] => j = k

\* Engine was called with realizations requested, on a singular system,
\* while the generator held a cached deviate.
C10_Witness ==
    /\ eng.pc = "done" /\ eng.outcome = "SingularSystem" /\ eng.rspd = "failed"
    /\ eng.in.nSims > 0 /\ eng.before.Saved

PiezometerHead(in, p) == in.piez[p].E - in.Base

\* C11: for every piezometer p with h = E[p] - Base, Engine uses the
\* unconfined rule (mu = k(h^2 + S^2)/2, sigma = k*h*S) exactly when h < H
\* and the confined rule (mu = k*H*(h - H/2), sigma = k*H*S) exactly when
\* h >= H, and writes row p as (dx^2, dy^2, dx*dy, dx, dy, 1)/sigma and
\* b[p] = (mu - Phi_w)/sigma, with Phi_w = 0 when W = 0.  (mu is kept
\* doubled, as Avg2.)
C11_PiecewiseRule ==
    eng.pc = "done" =>
        /\ Len(eng.sys) = eng.in.P
        /\ \A p \in 1..eng.in.P :
              LET in == eng.in
                  h == PiezometerHead(in, p)
                  S == in.piez[p].S
                  dx == in.piez[p].x - in.Xo
                  dy == in.piez[p].y - in.Yo
                  row == eng.sys[p]
              IN /\ h < in.H => row.Avg2 = in.k * (h * h + S * S) /\ row.Std = in.k * h * S
                 /\ h >= in.H => /\ row.Avg2 = 2 * in.k * in.H * h - in.k * in.H * in.H
                                 /\ row.Std = in.k * in.H * S
                 /\ row.num = <<dx * dx, dy * dy, dx * dy, dx, dy, 1>>
                 /\ in.W = 0 => row.Phiw = << >>
                 /\ Len(row.Phiw) = in.W

\* Engine was called with a piezometer whose head is exactly H.
C11_Witness ==
    /\ eng.pc = "done" /\ eng.in.P >= 1
    /\ PiezometerHead(eng.in, 1) = eng.in.H
    /\ eng.sys[1].Std = eng.in.k * eng.in.H * eng.in.piez[1].S

-----------------------------------------------------------------------------
(* The product scenario: two operands A and B, of any shape up to MaxDim   *)
(* by MaxDim (or empty), and the outputs C, D and E of the calls of a test *)
(* of the products: a product of A and B into C, Transpose( C, E ) and     *)
(* Multiply_MtMt( B, A, D ).                                               *)

Operands ==
    {Matrix_Null} \cup
    UNION { { Matrix_Array(r, n, data) : data \in [1..(r * n) -> 0..MaxOperandVal] } :
                r \in 1..MaxDim, n \in 1..MaxDim }

InitProduct ==
    /\ mats \in [{"A", "B", "C", "D", "E"} -> Operands]
    /\ mats["C"] = Matrix_Null /\ mats["D"] = Matrix_Null /\ mats["E"] = Matrix_Null
    /\ status = "running" /\ last = NoCall
    /\ lit = << >> /\ parsed = NotParsed
    /\ rng = RNG_Start /\ seeded = 0 - 1 /\ draws = << >>
    /\ eng = EngineIdle /\ result = NoResult

Products == {"Multiply_MM", "Multiply_MtM", "Multiply_MMt", "Multiply_MtMt"}

Multiply(h, op, a, b, c) ==
    CASE op = "Multiply_MM" -> Multiply_MM(h, a, b, c)
      [] op = "Multiply_MtM" -> Multiply_MtM(h, a, b, c)
      [] op = "Multiply_MMt" -> Multiply_MMt(h, a, b, c)
      [] op = "Multiply_MtMt" -> Multiply_MtMt(h, a, b, c)

\* A call of a routine on the objects of the product scenario.
ProductCall(res, call) ==
    /\ status = "running"
    /\ mats' = res.h
    /\ status' = IF res.ok THEN "running" ELSE "aborted"
    /\ last' = call
    /\ UNCHANGED OtherVarsOfMatrix

\* The first call: a product of A and B, or of A and A, into C.
DoProduct(op, b) ==
    /\ last.op = "none"
    /\ \E res \in {Multiply(mats, op, "A", b, "C")} : ProductCall(res, Call(op, "A", b, "C"))

\* After Multiply_MM( A, B, C ).
DoTransposeProduct ==
    /\ last.op = "Multiply_MM" /\ last.b = "B"
    /\ \E res \in {Transpose(mats, "C", "E")} : ProductCall(res, Call("Transpose", "C", "-", "E"))

DoReversedProduct ==
    /\ last.op = "Transpose"
    /\ \E res \in {Multiply_MtMt(mats, "B", "A", "D")} :
           ProductCall(res, Call("Multiply_MtMt", "B", "A", "D"))

NextProduct ==
    \/ \E op \in Products, b \in {"A", "B"} : DoProduct(op, b)
    \/ DoTransposeProduct
    \/ DoReversedProduct

SpecProduct == InitProduct /\ [][NextProduct]_vars

\* Whether the inner dimensions of a product of A and B match.
InnerMatch(op, A, B) ==
    CASE op = "Multiply_MM" -> A.nCols = B.nRows
      [] op = "Multiply_MtM" -> A.nRows = B.nRows
      [] op = "Multiply_MMt" -> A.nCols = B.nCols
      [] op = "Multiply_MtMt" -> A.nRows = B.nCols

\* The matrix C12 expects of a product of A and B.
Expected(op, A, B) ==
    LET a(i, j) == Elem(A, i, j)
        at(i, j) == Elem(A, j, i)
        b(i, j) == Elem(B, i, j)
        bt(i, j) == Elem(B, j, i)
    IN CASE op = "Multiply_MM" -> ReferenceProduct(A.nRows, B.nCols, A.nCols, a, b)
         [] op = "Multiply_MtM" -> ReferenceProduct(A.nCols, B.nCols, A.nRows, at, b)
         [] op = "Multiply_MMt" -> ReferenceProduct(A.nRows, B.nRows, A.nCols, a, bt)
         [] op = "Multiply_MtMt" -> ReferenceProduct(A.nCols, B.nRows, A.nRows, at, bt)

\* C12: for operands with at least one element and matching inner
\* dimensions, Multiply_MM, Multiply_MtM, Multiply_MMt and Multiply_MtMt
\* produce AB, A^T B, A B^T and A^T B^T, of the outer shape, each element
\* the sum over the inner index.
C12_FourProducts ==
    (last.op \in Products /\ NonEmpty(mats[last.a]) /\ NonEmpty(mats[last.b])
        /\ InnerMatch(last.op, mats[last.a], mats[last.b]))
    => /\ status = "running"
       /\ mats[last.c] = Expected(last.op, mats[last.a], mats[last.b])

\* A . B^T was computed for a 2 x 2 A and a 1 x 2 B.
C12_Witness ==
    /\ last.op = "Multiply_MMt" /\ last.b = "B" /\ status = "running"
    /\ mats["A"].nRows = 2 /\ mats["A"].nCols = 2 /\ mats["B"].nRows = 1
    /\ mats["C"].nRows = 2 /\ mats["C"].nCols = 1 /\ mats["C"].Data[2] = 2


\* C13: for A (m x k) and B (k x n), the transpose of Multiply_MM(A, B)
\* equals Multiply_MtMt(B, A) in shape and in every element.  (E is the
\* transpose of C = Multiply_MM(A, B), D is Multiply_MtMt(B, A).)
C13_TransposeOfProduct ==
    (last.op = "Multiply_MtMt" /\ last.c = "D")
    => /\ status = "running"
       /\ mats["E"].nRows = mats["B"].nCols /\ mats["E"].nCols = mats["A"].nRows
       /\ mats["D"] = mats["E"]

\* The three calls were made for a product which is not symmetric.
C13_Witness ==
    /\ last.op = "Multiply_MtMt" /\ last.c = "D" /\ status = "running"
    /\ mats["C"].nRows = 2 /\ mats["C"].nCols = 2
    /\ mats["C"].Data[2] # mats["C"].Data[3]
    /\ mats["E"].Data[2] = mats["C"].Data[3]


\* C14: for every A with at least one element, C = Multiply_MtM(A, A) is
\* square of size A.cols and symmetric.
C14_AtASymmetric ==
    (last.op = "Multiply_MtM" /\ last.b = "A" /\ NonEmpty(mats["A"]))
    => /\ status = "running"
       /\ mats["C"].nRows = mats["A"].nCols /\ mats["C"].nCols = mats["A"].nCols
       /\ \A i, j \in 0..(mats["A"].nCols - 1) : Elem(mats["C"], i, j) = Elem(mats["C"], j, i)

\* A^T A was computed for a 2 x 2 A; it is not diagonal.
C14_Witness ==
    /\ last.op = "Multiply_MtM" /\ last.b = "A" /\ status = "running"
    /\ mats["A"].nRows = 2 /\ mats["A"].nCols = 2
    /\ Elem(mats["C"], 0, 1) # 0 /\ Elem(mats["C"], 0, 0) # Elem(mats["C"], 1, 1)

-----------------------------------------------------------------------------
(* The norm scenario: the object X is built by the scalar-fill             *)
(* constructor, then its norms are asked for.                              *)

Fills == (0 - MaxFill)..MaxFill
Norms == {"MaxAbs", "L1Norm", "LInfNorm", "FNorm"}

Norm(op, A) ==
    CASE op = "MaxAbs" -> MaxAbs(A)
      [] op = "L1Norm" -> L1Norm(A)
      [] op = "LInfNorm" -> LInfNorm(A)
      [] op = "FNorm" -> FNorm(A)

DoFill(r, n, a) ==
    /\ last.op = "none"
    /\ mats' = [mats EXCEPT !["X"] = Matrix_Fill(r, n, a)]
    /\ last' = [Call("Matrix(int,int,double)", "-", "-", "X") EXCEPT !.r = r, !.n = n]
    /\ UNCHANGED <<status, lit, parsed, rng, seeded, draws, eng, result>>

DoNorm(op) ==
    /\ last.op = "Matrix(int,int,double)" /\ status = "running"
    /\ \E res \in {Norm(op, mats["X"])} :
          /\ result' = [op |-> op, outcome |-> IF res.ok THEN "returned" ELSE "abort",
                        v |-> res.v]
          /\ status' = IF res.ok THEN "running" ELSE "aborted"
    /\ UNCHANGED <<mats, last, lit, parsed, rng, seeded, draws, eng>>

NextNorms ==
    \/ \E r, n \in Dims, a \in Fills : DoFill(r, n, a)
    \/ \E op \in Norms : DoNorm(op)

SpecNorms == Init /\ [][NextNorms]_vars

\* The value the documented law gives to a norm of the m x n matrix filled
\* with a (the Frobenius norm by its square).
NormLaw(op, m, n, a) ==
    CASE op = "MaxAbs" -> Abs(a)
      [] op = "L1Norm" -> m * Abs(a)
      [] op = "LInfNorm" -> n * Abs(a)
      [] op = "FNorm" -> a * a * m * n

\* C15 as written: for every shape (m, n), empty ones included, and every
\* scalar a, each norm of the scalar-filled m x n matrix returns the value
\* of the law (MaxAbs = |a|, L1Norm = m*|a|, LInfNorm = n*|a|,
\* FNorm^2 = a^2*m*n).
C15_NormsOfEveryShape ==
    (last.op = "Matrix(int,int,double)" /\ result.op # "none")
    => /\ result.outcome = "returned"
       /\ result.v = NormLaw(result.op, last.r, last.n, mats["X"].Data[1])

\* C15, amended: for every shape (m, n) with m >= 1 and n >= 1 and every
\* scalar a, the m x n matrix built by the scalar-fill constructor holds a
\* in every element and has MaxAbs = |a|, L1Norm = m*|a|, LInfNorm = n*|a|
\* and FNorm^2 = a^2*m*n; a norm of a scalar-filled matrix with m = 0 or
\* n = 0 stops at its assertion and returns nothing.
C15_NormsOfScalarFill ==
    (last.op = "Matrix(int,int,double)")
    => LET X == mats["X"]
       IN /\ X.nRows = last.r /\ X.nCols = last.n
          /\ \A i \in 0..(last.r - 1), j \in 0..(last.n - 1) :
                Elem(X, i, j) = Elem(X, 0, 0)
          /\ (result.op # "none" /\ last.r >= 1 /\ last.n >= 1) =>
                /\ result.outcome = "returned"
                /\ result.v = NormLaw(result.op, last.r, last.n, Elem(X, 0, 0))
          /\ (result.op # "none" /\ (last.r = 0 \/ last.n = 0)) =>
                /\ result.outcome = "abort"
                /\ status = "aborted"

\* The row-sum norm of a 2 x 1 matrix filled with -2 was asked for.
C15_Witness ==
    /\ last.op = "Matrix(int,int,double)" /\ last.r = 2 /\ last.n = 1
    /\ mats["X"].Data = <<0 - 2, 0 - 2>>
    /\ result = [op |-> "LInfNorm", outcome |-> "returned", v |-> 2]

-----------------------------------------------------------------------------
(* The solver scenario.  Its matrices are built from lower-triangular      *)
(* integer factors, so that the decompositions stay within the integers;   *)
(* the matrices of the tests of test_linear_systems.cpp are among them.    *)

\* The lower-triangular factors: 1 x 1 and 2 x 2, with positive diagonal.
LowerFactors ==
    {Matrix_Array(1, 1, <<d>>) : d \in 1..MaxFactor}
    \cup {Matrix_Array(2, 2, <<d1, 0, e, d2>>) :
             d1 \in 1..MaxFactor, d2 \in 1..MaxFactor, e \in {0 - 1, 0, 1}}

\* L0 * L0^T
GramOfFactor(L0) ==
    LET l(i, j) == Elem(L0, i, j)
        lt(i, j) == Elem(L0, j, i)
    IN ReferenceProduct(L0.nRows, L0.nRows, L0.nRows, l, lt)

\* A with u added to its elements above the diagonal and d taken from its
\* last diagonal element.
Perturbed(A, u, d) ==
    [A EXCEPT !.Data = [e \in 1..Len(A.Data) |->
        LET i == (e - 1) \div A.nCols
            j == (e - 1) % A.nCols
        IN IF i < j THEN A.Data[e] + u
           ELSE IF i = j /\ i = A.nRows - 1 THEN A.Data[e] - d
           ELSE A.Data[e]]]

\* Matrix A and Matrix B of TestCholeskyDecomposition
TestCholeskyA ==
    Matrix_Array(4, 4, <<4, 6, 4, 4,   6, 10, 9, 7,   4, 9, 17, 11,   4, 7, 11, 18>>)
TestCholeskyB ==
    Matrix_Array(4, 4, <<2, 0, 0, 0,   3, 1, 0, 0,   2, 3, 2, 0,   2, 1, 2, 3>>)

\* The matrices given to CholeskyDecomposition: positive definite ones,
\* ones whose last squared diagonal is not positive, and ones which are not
\* symmetric.
CholeskyInputs ==
    {TestCholeskyA}
    \cup {Perturbed(GramOfFactor(L0), u, d) :
             L0 \in LowerFactors, u \in {0 - 1, 0, 1},
             d \in {0, MaxFactor * MaxFactor, MaxFactor * MaxFactor + 1}}

DoCholeskyDecomposition(A) ==
    /\ last.op = "none"
    /\ \E res \in {CholeskyDecomposition_L(A)} :
          /\ mats' = [o \in {"A", "L"} |-> IF o = "A" THEN A ELSE res.L]
          /\ result' = [op |-> "CholeskyDecomposition",
                        outcome |-> IF res.flag THEN "true" ELSE "false", v |-> 0]
    /\ last' = Call("CholeskyDecomposition", "A", "-", "L")
    /\ UNCHANGED <<status, lit, parsed, rng, seeded, draws, eng>>

\* The triangular factors of the least-squares systems: as LowerFactors,
\* with a zero allowed on the diagonal.
SystemFactors ==
    {Matrix_Array(1, 1, <<d>>) : d \in 0..MaxFactor}
    \cup {Matrix_Array(2, 2, <<d1, 0, e, d2>>) :
             d1 \in 0..MaxFactor, d2 \in 0..MaxFactor, e \in {0 - 1, 0, 1}}

\* The matrix whose rows are those of the transpose of L0, or their
\* negatives when sign is -1, with a row of zeros before row z when z <= n:
\* it is (n+1) x n then, and n x n when z = n + 1.
SystemOfFactor(L0, z, sign) ==
    LET n == L0.nRows
        m == IF z <= n THEN n + 1 ELSE n
    IN [nRows |-> m, nCols |-> n,
        Data |-> [e \in 1..(m * n) |->
                    LET i == (e - 1) \div n
                        j == (e - 1) % n
                    IN IF i = z THEN 0
                       ELSE sign * Elem(L0, j, IF i < z THEN i ELSE i - 1)]]

\* The matrices A given to LeastSquaresSolve: of full column rank when the
\* diagonal of the factor has no zero.
SystemInputs ==
    UNION {{SystemOfFactor(L0, z, sign) : z \in 0..(L0.nRows + 1), sign \in {0 - 1, 1}} :
              L0 \in SystemFactors}

\* The solutions X (n x k, k = 1 or 2) from which the right-hand sides are
\* built.
SolutionInputs(n) ==
    UNION {{Matrix_Array(n, k, data) : data \in [1..(n * k) -> {0 - 1, 1}]} : k \in 1..2}

DoLeastSquaresSolve(A, X) ==
    /\ last.op = "none"
    /\ LET a(i, j) == Elem(A, i, j)
           x(i, j) == Elem(X, i, j)
           B == ReferenceProduct(A.nRows, X.nCols, A.nCols, a, x)
       IN \E res \in {LeastSquaresSolve_X(A, B)} :
             /\ mats' = [o \in {"A", "X", "B", "Y"} |->
                           CASE o = "A" -> A [] o = "X" -> X [] o = "B" -> B
                             [] o = "Y" -> res.X]
             /\ result' = [op |-> "LeastSquaresSolve",
                           outcome |-> IF res.flag THEN "true" ELSE "false", v |-> 0]
    /\ last' = Call("LeastSquaresSolve", "A", "B", "Y")
    /\ UNCHANGED <<status, lit, parsed, rng, seeded, draws, eng>>

\* Matrix A, B, C and DD of TestAffineTransformation
TestAffineA ==
    Matrix_Array(8, 3, <<7, 8, 6,   6, 3, 7,   6, 1, 6,   2, 1, 4,
                         1, 8, 8,   8, 2, 6,   5, 5, 6,   6, 6, 2>>)
TestAffineB == Matrix_Array(3, 3, <<7, 2, 4,   5, 1, 2,   5, 7, 7>>)
TestAffineC == Matrix_Array(1, 3, <<6, 2, 8>>)
TestAffineDD ==
    Matrix_Array(8, 3, <<125, 66, 94,   98, 66, 87,   83, 57, 76,   45, 35, 46,
                         93, 68, 84,   102, 62, 86,   96, 59, 80,   88, 34, 58>>)

\* The arguments X (m x n), U (n x n) and mu (1 x n) given to
\* AffineTransformation: those of the test, and every small one.
AffineInputs ==
    {[X |-> TestAffineA, U |-> TestAffineB, mu |-> TestAffineC]}
    \cup UNION {UNION {
            {[X |-> Matrix_Array(m, n, x), U |-> Matrix_Array(n, n, u),
              mu |-> Matrix_Array(1, n, c)] :
                 x \in [1..(m * n) -> {0, 1}], u \in [1..(n * n) -> {0, 1}],
                 c \in [1..n -> {0 - 1, 1}]} : m \in 1..2} : n \in 1..2}

\* AffineTransformation(X, U, mu, Y) or AffineTransformation(X, U, mu, X);
\* X0 keeps what X held before the call.
DoAffineTransformation(in, y) ==
    /\ last.op = "none"
    /\ LET h == [o \in {"X", "U", "mu", "Y", "X0"} |->
                   CASE o = "X" -> in.X [] o = "U" -> in.U [] o = "mu" -> in.mu
                     [] o = "Y" -> Matrix_Null [] o = "X0" -> in.X]
       IN \E res \in {AffineTransformation_Y(h, "X", "U", "mu", y)} :
             /\ mats' = res.h
             /\ status' = IF res.ok THEN "running" ELSE "aborted"
    /\ last' = Call("AffineTransformation", "X", "U", y)
    /\ UNCHANGED <<lit, parsed, rng, seeded, draws, eng, result>>

NextSolvers ==
    \/ \E A \in CholeskyInputs : DoCholeskyDecomposition(A)
    \/ \E A \in SystemInputs : \E X \in SolutionInputs(A.nCols) : DoLeastSquaresSolve(A, X)
    \/ \E in \in AffineInputs, y \in {"X", "Y"} : DoAffineTransformation(in, y)

SpecSolvers == Init /\ [][NextSolvers]_vars

\* A with its upper triangle replaced by the mirror of its lower triangle.
LowerSymmetric(A) ==
    [A EXCEPT !.Data = [e \in 1..Len(A.Data) |->
        LET i == (e - 1) \div A.nCols
            j == (e - 1) % A.nCols
        IN IF i < j THEN Elem(A, j, i) ELSE A.Data[e]]]

\* L * L^T
TimesOwnTranspose(L) ==
    LET l(i, j) == Elem(L, i, j)
        lt(i, j) == Elem(L, j, i)
    IN ReferenceProduct(L.nRows, L.nRows, L.nCols, l, lt)

\* C16: for every symmetric positive-definite A (every leading principal
\* minor positive), CholeskyDecomposition(A, L) succeeds and yields L
\* lower-triangular (upper triangle exactly zero) with strictly positive
\* diagonal and L*L^T = A; the outcome and L depend only on the lower
\* triangle of A, so that the same holds of a matrix which is not symmetric
\* and of the symmetric matrix with the same lower triangle; the matrix of
\* TestCholeskyDecomposition gives the L of that test.
C16_CholeskyOfSPD ==
    (last.op = "CholeskyDecomposition")
    => LET A == mats["A"]
           L == mats["L"]
           S == LowerSymmetric(A)
           n == A.nRows
       IN /\ CholeskyDecomposition(S) => result.outcome = "true"
          /\ result.outcome = "true" =>
                /\ L.nRows = n /\ L.nCols = n
                /\ \A i, j \in 0..(n - 1) : i < j => Elem(L, i, j) = 0
                /\ \A i \in 0..(n - 1) : Elem(L, i, i) > 0
                /\ TimesOwnTranspose(L) = S
          /\ \A u \in {0 - 1, 0, 1} :
                LET other == CholeskyDecomposition_L(Perturbed(A, u, 0))
                IN /\ other.flag = (result.outcome = "true")
                   /\ other.flag => other.L = L
          /\ A = TestCholeskyA => L = TestCholeskyB

\* The decomposition of a positive-definite 2 x 2 matrix which is not
\* symmetric has succeeded.
C16_Witness ==
    /\ last.op = "CholeskyDecomposition" /\ result.outcome = "true"
    /\ mats["A"].nRows = 2
    /\ Elem(mats["A"], 0, 1) # Elem(mats["A"], 1, 0)
    /\ Elem(mats["L"], 1, 0) # 0

\* C17: for every A (m x n, m >= n) of full column rank, which is when
\* A^T A is positive definite, and every X (n x k),
\* LeastSquaresSolve(A, A*X, Y) succeeds and returns Y of shape n x k equal
\* to X; when A^T A is not positive definite it returns failure instead of
\* a result.
C17_LeastSquaresRecoversX ==
    (last.op = "LeastSquaresSolve")
    => LET A == mats["A"]
           X == mats["X"]
           Y == mats["Y"]
       IN /\ A.nRows >= A.nCols
          /\ CholeskyDecomposition(Expected("Multiply_MtM", A, A)) =>
                /\ result.outcome = "true"
                /\ Y.nRows = A.nCols /\ Y.nCols = X.nCols
                /\ Y = X
          /\ ~CholeskyDecomposition(Expected("Multiply_MtM", A, A)) =>
                result.outcome = "false"

\* A 3 x 2 system with two right-hand sides, whose triangular factor is not
\* diagonal, has been solved.
C17_Witness ==
    /\ last.op = "LeastSquaresSolve" /\ result.outcome = "true"
    /\ mats["A"].nRows = 3 /\ mats["A"].nCols = 2 /\ mats["X"].nCols = 2
    /\ \E i \in 0..2 : Elem(mats["A"], i, 0) # 0 /\ Elem(mats["A"], i, 1) # 0
    /\ mats["X"].Data = <<1, 0 - 1, 0 - 1, 1>>
    /\ mats["Y"] = mats["X"]

\* C18: AffineTransformation(X, U, mu, Y) with X m x n, U n x n and mu
\* 1 x n yields Y of shape m x n with
\* Y[i,j] = sum_k X[i,k]*U[k,j] + mu[0,j] for every i, j, X being what it
\* held before the call, and gives the same result when Y is the same
\* object as X; the matrices of TestAffineTransformation give the DD of
\* that test.
C18_AffineTransformation ==
    (last.op = "AffineTransformation")
    => LET X == mats["X0"]
           U == mats["U"]
           mu == mats["mu"]
           Y == mats[last.c]
       IN /\ status = "running"
          /\ Y.nRows = X.nRows /\ Y.nCols = X.nCols
          /\ \A i \in 0..(X.nRows - 1), j \in 0..(X.nCols - 1) :
                Elem(Y, i, j) =
                   SumOf([k \in 1..X.nCols |-> Elem(X, i, k - 1) * Elem(U, k - 1, j)])
                   + Elem(mu, 0, j)
          /\ last.c = "Y" => mats["X"] = X
          /\ (X = TestAffineA /\ U = TestAffineB /\ mu = TestAffineC) => Y = TestAffineDD

\* A 2 x 2 X has been transformed into itself by a U which mixes its
\* columns.
C18_Witness ==
    /\ last.op = "AffineTransformation" /\ last.c = "X"
    /\ mats["X0"] = Matrix_Array(2, 2, <<1, 1, 0, 1>>)
    /\ mats["U"] = Matrix_Array(2, 2, <<1, 1, 1, 0>>)
    /\ mats["mu"] = Matrix_Array(1, 2, <<1, 0 - 1>>)
    /\ mats["X"] = Matrix_Array(2, 2, <<3, 0, 2, 0 - 1>>)

-----------------------------------------------------------------------------
(* The multivariate scenario: Mu (1 x N), Sigma (N x N) and X are given,   *)
(* the generator is seeded and used, then MVNormalRNG is called once.      *)

\* The covariance matrices: symmetric, positive definite or with a last
\* squared diagonal which is not positive.
Sigmas ==
    {Perturbed(GramOfFactor(L0), 0, d) : L0 \in LowerFactors, d \in {0, MaxFactor * MaxFactor}}

InitMVN ==
    /\ \E Sigma \in Sigmas, X \in {Matrix_Null, Matrix_Fill(1, 1, 1)} :
          mats = [o \in {"Mu", "Sigma", "X"} |->
                    CASE o = "Mu" -> Matrix_Fill(1, Sigma.nCols, 1)
                      [] o = "Sigma" -> Sigma
                      [] o = "X" -> X]
    /\ status = "running" /\ last = NoCall
    /\ lit = << >> /\ parsed = NotParsed
    /\ rng = RNG_Start /\ seeded = 0 - 1 /\ draws = << >>
    /\ eng = EngineIdle /\ result = NoResult

\* MVNormalRNG( M, Mu, Sigma, X )
DoMVNormalRNG(M) ==
    /\ last.op = "none"
    /\ \E res \in {MVNormalRNG(rng, M, mats["Mu"].nCols,
                               CholeskyDecomposition_L(mats["Sigma"]).flag, mats["X"])} :
          /\ mats' = [mats EXCEPT !["X"] = res.X]
          /\ rng' = res.g
          /\ status' = IF res.ok THEN "running" ELSE "aborted"
          /\ result' = [op |-> "MVNormalRNG",
                        outcome |-> IF ~res.ok THEN "abort"
                                    ELSE IF res.flag THEN "true" ELSE "false",
                        v |-> 0]
    /\ last' = [Call("MVNormalRNG", "Mu", "Sigma", "X") EXCEPT !.r = M]
    /\ UNCHANGED <<lit, parsed, seeded, draws, eng>>

NextMVN ==
    \/ last.op = "none" /\ \E seed \in Seeds : DoInitializeRNG(seed)
    \/ last.op = "none" /\ DoGaussianRNG
    \/ \E M \in 0..MaxSims : DoMVNormalRNG(M)

SpecMVN == InitMVN /\ [][NextMVN]_vars

\* C19: MVNormalRNG(M, Mu, Sigma, X) returns false exactly when the
\* Cholesky decomposition of Sigma fails (Sigma is not positive definite),
\* and in that case X is left unchanged and no random deviate is consumed
\* (uniform state and cache slot unchanged); when it returns true X has
\* shape M x N with N = Mu.nCols(), and exactly M*N scalar deviates were
\* consumed, which are those X is made of.
C19_MVNormalRNGFailure ==
    [][ (last.op = "none" /\ last'.op = "MVNormalRNG")
        => LET M == last'.r
               N == mats["Mu"].nCols
               drawn == FillLoop(rng, M * N, << >>)
           IN /\ (result'.outcome = "false") = ~CholeskyDecomposition(mats["Sigma"])
              /\ result'.outcome = "false" => (mats'["X"] = mats["X"] /\ rng' = rng)
              /\ result'.outcome = "true" =>
                    /\ mats'["X"].nRows = M /\ mats'["X"].nCols = N
                    /\ rng' = drawn.g
                    /\ \A i \in 0..(M - 1), j \in 0..(N - 1) :
                          /\ Elem(mats'["X"], i, j).col = j
                          /\ Elem(mats'["X"], i, j).z = SubSeq(drawn.data, i * N + 1, i * N + N)
      ]_vars

\* MVNormalRNG has returned false for a 2 x 2 Sigma while a deviate was
\* cached and X held an element.
C19_Witness ==
    /\ last.op = "MVNormalRNG" /\ result.outcome = "false"
    /\ mats["Sigma"].nRows = 2 /\ last.r = 2
    /\ rng.Saved /\ mats["X"] = Matrix_Fill(1, 1, 1)

-----------------------------------------------------------------------------
(* The cache slot of GaussianRNG() (specification SpecRNG).  *)

\* C20: in every sequence of GaussianRNG() calls, a call draws new uniforms
\* only when the cache slot is empty.  A call made while a partner value is
\* cached returns exactly that cached value, draws no uniform and empties
\* the slot; a call made while the slot is empty accepts a pair (U1, U2)
\* with R < 1, returns P*U2 and caches P*U1 of that same pair, U2 being the
\* last uniform drawn and U1 the one before it.  So each accepted pair
\* serves exactly two consecutive calls, P*U2 first, then P*U1.
C20_CachedValueServedNext ==
    [][ (Len(draws') = Len(draws) + 1)
        => LET value == draws'[Len(draws')]
           IN IF rng.Saved
              THEN /\ value = rng.S
                   /\ rng'.state = rng.state
                   /\ ~rng'.Saved
              ELSE /\ rng'.Saved
                   /\ value.R2 < RAND_MAX * RAND_MAX
                   /\ value.n = 2 * rng'.state - RAND_MAX
                   /\ \E s1 \in 0..RAND_MAX :
                         /\ rand(s1) = rng'.state
                         /\ rng'.S = [R2 |-> value.R2, n |-> 2 * s1 - RAND_MAX]
                         /\ value.R2 = (2 * s1 - RAND_MAX) * (2 * s1 - RAND_MAX)
                                       + value.n * value.n
      ]_vars

\* Three calls after the start of the program: the first pair has served
\* the first two calls, and the third call has cached the partner of the
\* value it returned.
C20_Witness ==
    /\ seeded = 0 - 1 /\ Len(draws) = 3
    /\ draws[1].R2 = draws[2].R2 /\ draws[1].n # draws[2].n
    /\ rng.Saved /\ rng.S.R2 = draws[3].R2

-----------------------------------------------------------------------------
(* The rejection loop, one iteration at a time.  rand() is the uniform     *)
(* source: here it may return any value of 0..RAND_MAX.  result holds the  *)
(* position of the call: "in loop" with the number of pairs rejected so    *)
(* far (counted up to MaxRejections), or "returned".                       *)

\* A GaussianRNG() call begins: with a cached value it returns at once,
\* otherwise it enters the loop.
BeginGaussianRNG ==
    /\ result.outcome # "in loop" /\ Len(draws) < MaxDraws
    /\ IF rng.Saved
       THEN /\ rng' = [rng EXCEPT !.Saved = FALSE]
            /\ draws' = Append(draws, rng.S)
            /\ result' = [op |-> "GaussianRNG", outcome |-> "returned", v |-> 0]
       ELSE /\ result' = [op |-> "GaussianRNG", outcome |-> "in loop", v |-> 0]
            /\ UNCHANGED <<rng, draws>>
    /\ UNCHANGED <<mats, status, last, lit, parsed, seeded, eng>>

\* An iteration which draws a pair with R >= 1.
RejectPair(u1, u2) ==
    /\ result.outcome = "in loop"
    /\ ~Accepted(Uniform(u1), Uniform(u2))
    /\ rng' = [rng EXCEPT !.state = u2]
    /\ result' = [result EXCEPT !.v = Min(result.v + 1, MaxRejections)]
    /\ UNCHANGED <<mats, status, last, lit, parsed, seeded, draws, eng>>

\* An iteration which draws a pair with R < 1: S = P*U1 is saved and P*U2
\* is returned.
AcceptPair(u1, u2) ==
    /\ result.outcome = "in loop"
    /\ Accepted(Uniform(u1), Uniform(u2))
    /\ LET R2 == Uniform(u1) * Uniform(u1) + Uniform(u2) * Uniform(u2)
       IN /\ rng' = [state |-> u2, Saved |-> TRUE, S |-> [R2 |-> R2, n |-> Uniform(u1)]]
          /\ draws' = Append(draws, [R2 |-> R2, n |-> Uniform(u2)])
    /\ result' = [result EXCEPT !.outcome = "returned"]
    /\ UNCHANGED <<mats, status, last, lit, parsed, seeded, eng>>

Accepting == \E u1, u2 \in 0..RAND_MAX : AcceptPair(u1, u2)

NextLoop ==
    \/ BeginGaussianRNG
    \/ \E u1, u2 \in 0..RAND_MAX : RejectPair(u1, u2)
    \/ Accepting

\* The uniform source eventually yields a pair with R < 1.
SpecLoop == Init /\ [][NextLoop]_vars /\ WF_vars(Accepting)

-----------------------------------------------------------------------------
(* Copies (specification SpecMatrix).  *)

\* C22: copy construction and assignment are deep.  After B = A or
\* Matrix B(A), B has A's shape and elements; a later write to the elements
\* of one matrix (operator=( double )) leaves the other matrix unchanged;
\* and self-assignment A = A leaves A's shape and elements unchanged.
C22_CopiesAreDeep ==
    /\ []( (last.op \in {"Matrix(Matrix)", "operator="} /\ last.a # last.c)
           => /\ mats[last.c].nRows = mats[last.a].nRows
              /\ mats[last.c].nCols = mats[last.a].nCols
              /\ mats[last.c].Data = mats[last.a].Data )
    /\ [][ /\ last'.op = "operator=(double)" =>
                \A o \in Obj \ {last'.c} : mats'[o] = mats[o]
           /\ (last'.op = "operator=" /\ last'.a = last'.c) => mats' = mats
         ]_vars

-----------------------------------------------------------------------------
(* The contract scenario: A and B hold any two shapes, C holds a 1 x 1    *)
(* matrix, and one routine is called, whether or not its operands meet     *)
(* its assertions.                                                         *)

Shapes == {Matrix_Fill(r, n, 1) : r \in Dims, n \in Dims}

InitContracts ==
    /\ \E A \in Shapes, B \in Shapes :
          mats = [o \in {"A", "B", "C"} |->
                    CASE o = "A" -> A [] o = "B" -> B [] o = "C" -> Matrix_Fill(1, 1, 1)]
    /\ status = "running" /\ last = NoCall
    /\ lit = << >> /\ parsed = NotParsed
    /\ rng = RNG_Start /\ seeded = 0 - 1 /\ draws = << >>
    /\ eng = EngineIdle /\ result = NoResult

BinaryRoutines == {"Add_MM", "Subtract_MM"} \cup Products

Binary(h, op, a, b, c) ==
    CASE op = "Add_MM" -> Add_MM(h, a, b, c)
      [] op = "Subtract_MM" -> Subtract_MM(h, a, b, c)
      [] OTHER -> Multiply(h, op, a, b, c)

\* Add_MM, Subtract_MM or a product of A and B into C.
DoBinary(op) ==
    /\ last.op = "none"
    /\ \E res \in {Binary(mats, op, "A", "B", "C")} :
          /\ mats' = res.h
          /\ status' = IF res.ok THEN "running" ELSE "aborted"
    /\ last' = Call(op, "A", "B", "C")
    /\ UNCHANGED <<lit, parsed, rng, seeded, draws, eng, result>>

Measures == {"Trace"} \cup Norms

Measure(op, A) == IF op = "Trace" THEN Trace(A) ELSE Norm(op, A)

\* A routine which returns a double, on A: res is the [ok, v] it gives.
Returns(res, call) ==
    /\ last.op = "none"
    /\ result' = [op |-> call.op, outcome |-> IF res.ok THEN "returned" ELSE "abort",
                  v |-> res.v]
    /\ status' = IF res.ok THEN "running" ELSE "aborted"
    /\ last' = call
    /\ UNCHANGED <<mats, lit, parsed, rng, seeded, draws, eng>>

DoMeasure(op) == Returns(Measure(op, mats["A"]), Call(op, "A", "-", "-"))

\* A( row, col ) and A.Base( row, col )
DoElementAt(row, col) ==
    Returns(ElementAt(mats["A"], row, col),
            [Call("operator()", "A", "-", "-") EXCEPT !.r = row, !.n = col])
DoBaseAt(row, col) ==
    Returns(BaseAt(mats["A"], row, col),
            [Call("Base", "A", "-", "-") EXCEPT !.r = row, !.n = col])

\* Literals with and without a character outside the legal alphabet.
ContractLiterals ==
    {<<"1">>, <<"1", ",", "2">>, <<"x">>, <<"1", "+", "2">>, <<"1", ";", "a">>}

\* Matrix C( str )
DoLiteral(str) ==
    /\ last.op = "none"
    /\ lit' = str
    /\ \E res \in {Matrix_String(str)} :
          /\ parsed' = res
          /\ mats' = IF res.outcome = "ok" THEN [mats EXCEPT !["C"] = res.M] ELSE mats
          /\ status' = IF res.outcome = "ok" THEN "running" ELSE "aborted"
    /\ last' = Call("Matrix(string)", "-", "-", "C")
    /\ UNCHANGED <<rng, seeded, draws, eng, result>>

Indices == (0 - 1)..MaxDim

NextContracts ==
    \/ \E op \in BinaryRoutines : DoBinary(op)
    \/ \E op \in Measures : DoMeasure(op)
    \/ \E row, col \in Indices : DoElementAt(row, col)
    \/ \E row, col \in Indices : DoBaseAt(row, col)
    \/ \E str \in ContractLiterals : DoLiteral(str)

SpecContracts == InitContracts /\ [][NextContracts]_vars

\* Whether the call made on the operands A and B fails a dimensional
\* precondition named by C24.
FailsPrecondition(call, A, B, str) ==
    CASE call.op \in {"Add_MM", "Subtract_MM"} ->
             A.nRows # B.nRows \/ A.nCols # B.nCols
      [] call.op \in Products -> ~InnerMatch(call.op, A, B)
      [] call.op = "Trace" -> A.nRows # A.nCols
      [] call.op \in Norms -> ~NonEmpty(A)
      [] call.op = "Matrix(string)" -> \E k \in 1..Len(str) : str[k] \notin LegalChars
      [] call.op \in {"operator()", "Base"} ->
             ~(call.r \in 0..(A.nRows - 1) /\ call.n \in 0..(A.nCols - 1))
      [] OTHER -> FALSE

\* C24: a dimensional precondition failure is a contract violation which
\* aborts and is never a returned error.  Add_MM or Subtract_MM with
\* unequal shapes, a product with unequal inner dimensions, Trace of a
\* matrix which is not square, a norm of an empty matrix, a literal with a
\* character outside the legal alphabet, and operator()(row,col) or
\* Base(row,col) with an index outside [0,rows) x [0,cols) (every index on
\* an empty matrix) all stop at an assertion: the program aborts, no
\* value is returned, and no matrix has been written.
C24_ContractViolationsAbort ==
    [][ (last.op = "none" /\ last'.op # "none"
         /\ FailsPrecondition(last', mats["A"], mats["B"], lit'))
        => /\ status' = "aborted"
           /\ mats' = mats
           /\ result'.outcome # "returned"
           /\ parsed'.outcome # "ok"
      ]_vars

\* Trace of a 1 x 2 matrix has aborted.
C24_Witness ==
    /\ last.op = "Trace" /\ status = "aborted"
    /\ mats["A"].nRows = 1 /\ mats["A"].nCols = 2
    /\ result.outcome = "abort"

-----------------------------------------------------------------------------
(* The scalar routines (specification SpecMatrix).  *)

\* A with every element replaced by a + A[i,j], or by a * A[i,j].
Elementwise(op, a, A) ==
    [A EXCEPT !.Data = [k \in 1..Len(A.Data) |->
                           IF op = "Add_aM" THEN a + A.Data[k] ELSE a * A.Data[k]]]

\* C25: Add_aM(a, A, C) and Multiply_aM(a, A, C) give C the shape of A with
\* every element C[i,j] equal to a + A[i,j], respectively a * A[i,j],
\* computed from the corresponding input element only, also when C is the
\* same object as A; A is unchanged when C is distinct.
C25_ScalarRoutinesElementwise ==
    [][ (last'.op \in {"Add_aM", "Multiply_aM"} /\ status' = "running")
        => /\ \E a \in Vals : mats'[last'.c] = Elementwise(last'.op, a, mats[last'.a])
           /\ last'.c # last'.a => mats'[last'.a] = mats[last'.a]
      ]_vars

-----------------------------------------------------------------------------
(* The dot-product scenario: x and y point at the start of two buffers of  *)
(* BufLen elements, and one variant of SumProduct is called with n         *)
(* elements and strides dx, dy which stay within the buffers.  With        *)
(* n <= 0 the pointers are given no buffer at all.                         *)

BufLen == (MaxDim - 1) * MaxDim + 1
Buffers == [1..BufLen -> {1, 2}]
SecondBuffers(x) == {[k \in 1..BufLen |-> k], [k \in 1..BufLen |-> x[BufLen + 1 - k]]}

InitSumProduct ==
    /\ \E x \in Buffers : \E y \in SecondBuffers(x) :
          mats = [o \in {"x", "y"} |->
                     Matrix_Array(1, BufLen, IF o = "x" THEN x ELSE y)]
    /\ status = "running" /\ last = NoCall
    /\ lit = << >> /\ parsed = NotParsed
    /\ rng = RNG_Start /\ seeded = 0 - 1 /\ draws = << >>
    /\ eng = EngineIdle /\ result = NoResult

Variants == {"n,x,y", "n,x,dx,y,dy", "n,x,y,dy", "n,x,dx,y", "n,x", "n,x,dx"}

SumProduct(variant, n, x, dx, y, dy) ==
    CASE variant = "n,x,y" -> SumProduct_xy(n, x, 0, y, 0, 0, 0)
      [] variant = "n,x,dx,y,dy" -> SumProduct_xdxydy(n, x, 0, dx, y, 0, dy, 0, 0)
      [] variant = "n,x,y,dy" -> SumProduct_xydy(n, x, 0, y, 0, dy, 0, 0)
      [] variant = "n,x,dx,y" -> SumProduct_xdxy(n, x, 0, dx, y, 0, 0, 0)
      [] variant = "n,x" -> SumProduct_x(n, x, 0, 0, 0)
      [] variant = "n,x,dx" -> SumProduct_xdx(n, x, 0, dx, 0, 0)

\* The strides a variant uses: 1 where it has no stride argument.
StrideX(variant, dx) == IF variant \in {"n,x,dx,y,dy", "n,x,dx,y", "n,x,dx"} THEN dx ELSE 1
StrideY(variant, dx, dy) ==
    CASE variant \in {"n,x,dx,y,dy", "n,x,y,dy"} -> dy
      [] variant = "n,x,dx" -> dx
      [] OTHER -> 1

DoSumProduct(variant, n, dx, dy) ==
    /\ last.op = "none"
    /\ dx = StrideX(variant, dx) /\ dy = StrideY(variant, dx, dy)
    /\ (n - 1) * dx < BufLen /\ (n - 1) * dy < BufLen
    /\ LET x == IF n <= 0 THEN << >> ELSE mats["x"].Data
           y == IF n <= 0 THEN << >> ELSE mats["y"].Data
       IN \E v \in {SumProduct(variant, n, x, dx, y, dy)} :
             result' = [op |-> variant, outcome |-> "returned", v |-> v]
    /\ last' = [Call("SumProduct", "x", "y", "-") EXCEPT !.r = n, !.n = dx, !.prev = dy]
    /\ UNCHANGED <<mats, status, lit, parsed, rng, seeded, draws, eng>>

NextSumProduct ==
    \E variant \in Variants, n \in (0 - 1)..MaxDim, dx \in 1..MaxDim, dy \in 1..MaxDim :
        DoSumProduct(variant, n, dx, dy)

SpecSumProduct == InitSumProduct /\ [][NextSumProduct]_vars

\* C26: all SumProduct variants compute the same left-to-right sum of n
\* products.  A variant with strides dx, dy returns the sum over i < n of
\* x[i*dx]*y[i*dy], a stride it does not take being 1 and y being x for the
\* self variants; so the strided variants agree with the unit-stride
\* variant when the strides are 1, and the self variants agree with
\* SumProduct(n, x, x) (with both strides dx for the strided one); and
\* every variant returns 0 for n <= 0, without reading memory.
C26_SumProductVariantsAgree ==
    (last.op = "SumProduct")
    => LET n == last.r
           dx == last.n
           dy == last.prev
           x == mats["x"].Data
           y == IF result.op \in {"n,x", "n,x,dx"} THEN x ELSE mats["y"].Data
       IN /\ result.outcome = "returned"
          /\ n <= 0 => result.v = 0
          /\ n > 0 =>
               /\ result.v = SumOf([i \in 1..n |-> x[(i - 1) * dx + 1] * y[(i - 1) * dy + 1]])
               /\ (dx = 1 /\ dy = 1) => result.v = SumProduct_xy(n, x, 0, y, 0, 0, 0)
               /\ result.op = "n,x,dx" =>
                     result.v = SumProduct_xdxydy(n, x, 0, dx, x, 0, dx, 0, 0)

\* The variant with two strides has summed two products with dx = 1 and
\* dy = 2, of buffers for which a stride of 1 gives another sum.
C26_Witness ==
    /\ last.op = "SumProduct" /\ last.r = 2 /\ last.n = 1 /\ last.prev = 2
    /\ result.op = "n,x,dx,y,dy"
    /\ result.v # SumProduct_xy(2, mats["x"].Data, 0, mats["y"].Data, 0, 0, 0)

-----------------------------------------------------------------------------
(* The matrix-fill scenario: the generator is seeded and used, then        *)
(* GaussianRNG( M, N, Z ) is called once and followed element by element.  *)
(* draws holds the values GaussianRNG() returned since the call began,     *)
(* last the arguments and the generator as the call found it, result.v the *)
(* loop variables <<i, j>>.  The elements of Z are doubles in the form of  *)
(* the generator's values, 0.0 being NoDeviate.                            *)

\* The zeros Resize leaves, as doubles of that form.
ZeroDeviates(Z) == [Z EXCEPT !.Data = [k \in 1..Len(Z.Data) |-> NoDeviate]]

InitFill ==
    /\ \E Z \in {Matrix_Null, Matrix_Fill(1, 2, NoDeviate), Matrix_Fill(2, 2, NoDeviate)} :
          mats = [o \in {"Z"} |-> Z]
    /\ status = "running" /\ last = NoCall
    /\ lit = << >> /\ parsed = NotParsed
    /\ rng = RNG_Start /\ seeded = 0 - 1 /\ draws = << >>
    /\ eng = EngineIdle /\ result = NoResult

SeedBeforeFill(seed) ==
    /\ last.op = "none" /\ seeded = 0 - 1
    /\ rng' = InitializeRNG(rng, seed)
    /\ seeded' = seed
    /\ UNCHANGED <<mats, status, last, lit, parsed, draws, eng, result>>

\* A scalar draw before the call, which leaves a value in the cache.
DrawBeforeFill ==
    /\ last.op = "none" /\ ~rng.Saved
    /\ rng' = GaussianRNG(rng).g
    /\ UNCHANGED <<mats, status, last, lit, parsed, seeded, draws, eng, result>>

BeginFill(M, N) ==
    /\ last.op = "none"
    /\ last' = [Call("GaussianRNG(M,N,Z)", "Z", "-", "-") EXCEPT !.r = M, !.n = N, !.prev = rng]
    /\ IF ~(M >= 1) \/ ~(N >= 1)
       THEN /\ status' = "aborted"
            /\ result' = [op |-> "GaussianRNG(M,N,Z)", outcome |-> "aborted", v |-> 0]
            /\ UNCHANGED mats
       ELSE /\ mats' = [mats EXCEPT !["Z"] = ZeroDeviates(Resize(mats["Z"], M, N))]
            /\ result' = [op |-> "GaussianRNG(M,N,Z)", outcome |-> "in loop", v |-> <<0, 0>>]
            /\ UNCHANGED status
    /\ UNCHANGED <<lit, parsed, rng, seeded, draws, eng>>

\* Z(i,j) = GaussianRNG();  and ++j, or ++i with j = 0 at the end of a row
FillElement ==
    /\ result.outcome = "in loop" /\ result.v[1] < last.r
    /\ LET i == result.v[1]
           j == result.v[2]
           d == GaussianRNG(rng)
       IN /\ rng' = d.g
          /\ draws' = Append(draws, d.value)
          /\ mats' = [mats EXCEPT !["Z"] = Store(mats["Z"], i, j, d.value)]
          /\ result' = [result EXCEPT !.v = IF j + 1 < last.n THEN <<i, j + 1>>
                                            ELSE <<i + 1, 0>>]
    /\ UNCHANGED <<status, last, lit, parsed, seeded, eng>>

\* return true;
ReturnFill ==
    /\ result.outcome = "in loop" /\ ~(result.v[1] < last.r)
    /\ result' = [result EXCEPT !.outcome = "returned", !.v = TRUE]
    /\ UNCHANGED <<mats, status, last, lit, parsed, rng, seeded, draws, eng>>

NextFill ==
    \/ \E seed \in Seeds : SeedBeforeFill(seed)
    \/ DrawBeforeFill
    \/ \E M, N \in Dims : BeginFill(M, N)
    \/ FillElement
    \/ ReturnFill

\* A call which has begun is run to its end.
SpecFill == InitFill /\ [][NextFill]_vars /\ WF_vars(FillElement \/ ReturnFill)

FilledInRowMajorOrder ==
    (result.op = "GaussianRNG(M,N,Z)" /\ result.outcome = "returned")
    => LET M == last.r
           N == last.n
           Z == mats["Z"]
       IN /\ result.v = TRUE
          /\ Z.nRows = M /\ Z.nCols = N
          /\ Len(draws) = M * N
          /\ \A i \in 0..(M - 1), j \in 0..(N - 1) :
                ElementAt(Z, i, j) = Value(draws[i * N + j + 1])
          /\ draws = FillLoop(last.prev, M * N, << >>).data
          /\ rng = FillLoop(last.prev, M * N, << >>).g
          /\ GaussianRNG_Matrix(last.prev, M, N) = [ok |-> TRUE, g |-> rng, Z |-> Z]

\* C27: GaussianRNG(M, N, Z) resizes Z to M x N and fills it in row-major
\* order with consecutive scalar draws: on return Z(i,j) is the
\* (i*N + j + 1)-th value GaussianRNG() returned since the call began,
\* exactly M*N scalar draws were consumed, and the value returned is true;
\* and a call which passed its assertions does return.
C27_MatrixFillRowMajor ==
    /\ []FilledInRowMajorOrder
    /\ (result.outcome = "in loop") ~> (result.outcome = "returned")

\* A call has returned a 2 x 2 matrix whose second and third draws differ,
\* having found a value in the cache.
C27_Witness ==
    /\ result.op = "GaussianRNG(M,N,Z)" /\ result.outcome = "returned"
    /\ last.r = 2 /\ last.n = 2 /\ last.prev.Saved
    /\ draws[2] # draws[3]

-----------------------------------------------------------------------------
(* The realizations Engine returns (specification SpecEngine).             *)

\* C28: whenever Engine returns normally with nSims >= 1, the realization
\* rows it returns were produced by a successful MVNormalRNG call: the
\* generator returned true and the rows are those of its X = Z*U + 1*mu,
\* never the zeros Matrix X( nSims, 6 ) was constructed with.
C28_RealizationsFromSuccessfulCall ==
    (eng.pc = "done" /\ eng.outcome = "returned" /\ eng.in.nSims >= 1)
    => /\ eng.mvn = "true"
       /\ LET X == MVNormalRNG(eng.before, eng.in.nSims, NCoef, TRUE,
                               Matrix_Dim(eng.in.nSims, NCoef)).X
          IN \A i \in 1..eng.in.nSims :
                eng.ret.a[i] = SubSeq(X.Data, (i - 1) * NCoef + 1, i * NCoef)

\* The same, for the calls in which MVNormalRNG returned true.
C28_SuccessfulCallsOnly ==
    (eng.pc = "done" /\ eng.mvn = "true")
    => C28_RealizationsFromSuccessfulCall

-----------------------------------------------------------------------------
(* The weights of the assembly (specification SpecEngine).                 *)

\* C29: for every input with k > 0, H > 0 and every S[p] > 0, whatever E[p]
\* and Base, the weight sigma_Phi (Std) computed for each piezometer is
\* strictly positive, so that no row of A or b is divided by zero or by a
\* negative number.
C29_WeightsPositive ==
    ( /\ eng.pc = "done" /\ eng.in.k > 0 /\ eng.in.H > 0
      /\ \A p \in 1..eng.in.P : eng.in.piez[p].S > 0 )
    => \A p \in 1..eng.in.P : eng.sys[p].Std > 0

\* The same, for the inputs whose heads are all above the aquifer base.
C29_WeightsPositiveAboveBase ==
    ( /\ eng.pc = "done" /\ eng.in.k > 0 /\ eng.in.H > 0
      /\ \A p \in 1..eng.in.P : eng.in.piez[p].S > 0 /\ PiezometerHead(eng.in, p) > 0 )
    => \A p \in 1..eng.in.P : eng.sys[p].Std > 0

-----------------------------------------------------------------------------
(* The elements the products read (specification SpecProduct).  SumProduct *)
(* dereferences a pointer n times, from the offset of the base pointer it  *)
(* is given and a stride further each time.                                *)

\* The offsets at which the loop of SumProduct dereferences one of its
\* pointers: for (int i=0; i<n; ++i) { ... (*x) ...; x += dx; }
RECURSIVE Walk(_, _, _, _, _)
Walk(n, xo, dx, i, seen) ==
    IF i < n THEN Walk(n, xo + dx, dx, i + 1, seen \cup {xo}) ELSE seen

\* SumProduct( A.nCols(), A.Base(i,0), B.Base(0,j), B.nCols() ), for all i, j
Reads_MM(A, B) ==
    [x |-> UNION { Walk(A.nCols, Base(A, i, 0), 1, 0, {}) : i \in 0..(A.nRows - 1) },
     y |-> UNION { Walk(A.nCols, Base(B, 0, j), B.nCols, 0, {}) : j \in 0..(B.nCols - 1) }]

Reads_MtM_StrideOfRows(A, B) ==
    [x |-> UNION { Walk(A.nRows, Base(A, 0, i), A.nRows, 0, {}) : i \in 0..(A.nCols - 1) },
     y |-> UNION { Walk(A.nRows, Base(B, 0, j), B.nRows, 0, {}) : j \in 0..(B.nCols - 1) }]

\* SumProduct( A.nRows(), A.Base(0,i), A.nCols(), B.Base(0,j), B.nCols() )
Reads_MtM(A, B) ==
    [x |-> UNION { Walk(A.nRows, Base(A, 0, i), A.nCols, 0, {}) : i \in 0..(A.nCols - 1) },
     y |-> UNION { Walk(A.nRows, Base(B, 0, j), B.nCols, 0, {}) : j \in 0..(B.nCols - 1) }]

\* SumProduct( A.nCols(), A.Base(i,0), B.Base(j,0) )
Reads_MMt(A, B) ==
    [x |-> UNION { Walk(A.nCols, Base(A, i, 0), 1, 0, {}) : i \in 0..(A.nRows - 1) },
     y |-> UNION { Walk(A.nCols, Base(B, j, 0), 1, 0, {}) : j \in 0..(B.nRows - 1) }]

\* SumProduct( A.nRows(), A.Base(0,i), A.nCols(), B.Base(j,0) )
Reads_MtMt(A, B) ==
    [x |-> UNION { Walk(A.nRows, Base(A, 0, i), A.nCols, 0, {}) : i \in 0..(A.nCols - 1) },
     y |-> UNION { Walk(A.nRows, Base(B, j, 0), 1, 0, {}) : j \in 0..(B.nRows - 1) }]

Reads(op, A, B) ==
    CASE op = "Multiply_MM" -> Reads_MM(A, B)
      [] op = "Multiply_MtM" -> Reads_MtM(A, B)
      [] op = "Multiply_MMt" -> Reads_MMt(A, B)
      [] op = "Multiply_MtMt" -> Reads_MtMt(A, B)

\* The offsets of the buffer of M.
Buffer(M) == 0..(M.nRows * M.nCols - 1)

\* C30: in Multiply_MM, Multiply_MtM, Multiply_MMt and Multiply_MtMt, for
\* every pair of operands which passes the routine's assertions, every
\* element read through the base pointers and strides handed to SumProduct
\* lies inside the buffer of the operand it was taken from: its offset is
\* in [0, rows*cols).
C30_ProductsReadInsideBuffers ==
    (last.op \in Products /\ status = "running")
    => LET A == mats[last.a]
           B == mats[last.b]
           r == Reads(last.op, A, B)
       IN /\ r.x \subseteq Buffer(A)
          /\ r.y \subseteq Buffer(B)
          /\ Len(A.Data) = A.nRows * A.nCols
          /\ Len(B.Data) = B.nRows * B.nCols

\* Multiply_MtM has returned for a 2 x 1 operand A and a 2 x 2 operand B,
\* having read the last element of each.
C30_Witness ==
    /\ last.op = "Multiply_MtM" /\ last.b = "B" /\ status = "running"
    /\ mats["A"].nRows = 2 /\ mats["A"].nCols = 1
    /\ mats["B"].nRows = 2 /\ mats["B"].nCols = 2
    /\ 1 \in Reads_MtM(mats["A"], mats["B"]).x
    /\ 3 \in Reads_MtM(mats["A"], mats["B"]).y

====
